---- MODULE Spec2Model ----
(***************************************************************************)
(* Model of the VERITRACE PDF multilingual language analyzer               *)
(* (src/pages/1_pdf_multilingual_language_analyzer.py): the gated main()   *)
(* run, the sliding-window rate limiter check_rate_limit, the              *)
(* two-classifier consensus detect_language, the two segmenters and        *)
(* generate_language_report; of the two pages without a gate               *)
(* (01_multilingual_language_analysis.py, 01_labs_experimental.py) with    *)
(* the four-classifier detect_language of the labs page; and of the        *)
(* pagination of the metadata dashboard (src/app.py).                      *)
(*                                                                         *)
(* Conventions.  Clock values are whole seconds (time.time() is a float;   *)
(* only differences and the comparison with RATE_LIMIT_PERIOD matter).     *)
(* Confidences are written in hundredths: 0, 60, 70, 100 stand for the     *)
(* float literals 0.0, 0.6, 0.7, 1.0 of the source.  A Python string is a  *)
(* sequence of one-character strings, so that str.lower / str.upper and    *)
(* string comparison are computed and not assumed.                         *)
(***************************************************************************)
EXTENDS Integers, Sequences, FiniteSets, TLC

VARIABLES
    clock,          \* the value time.time() returns now
    upload_times,   \* the module-level deque of timestamps
    calls,          \* history: the check_rate_limit calls made, [t, ok] each
    dl_pc,          \* detect_language: "call" before, "done" after
    dl_lingua,      \* what lingua_detector.detect_language_of(text) gives
    dl_langdetect,  \* what langdetect_detect(text) gives
    dl_result,      \* what detect_language returns or raises
    pc,             \* main(): the statement the current run is at
    runs,           \* runs of main() started so far
    trace,          \* history: the steps the current run has executed, in order
    messages,       \* the st.error / st.warning messages of the current run
    outcome,        \* history: how the current run ended ("running" until then)
    size,           \* uploaded_file.size
    tmp_created,    \* history: the current run created its temporary file
    tmp_exists,     \* the temporary file of the current run exists on disk
    scan,           \* (is_safe, message) of scan_pdf_for_malicious_content
    pages,          \* the page texts of the document in the temporary file
    has_text,       \* has_text
    text,           \* text
    method,         \* analysis_method
    n,              \* n
    language_spans, \* language_spans
    report,         \* the report generated and shown, NoReport until then
    extract_calls,  \* history: calls of has_text_layer, page.get_text, ocr_pdf
    report_calls,   \* history: calls of generate_language_report
    run_vote,       \* history: what the two classifiers gave in the current run, <<>> before
    t_pc,           \* per thread: the statement of check_rate_limit it is at
    t_now,          \* per thread: current_time
    t_ret,          \* per thread: how its last call ended
    sg_pc,          \* a segmenter call: "call", "loop", "done" or "raised"
    sg_method,      \* which segmenter: "ngram" or "lines"
    sg_text,        \* text
    sg_n,           \* n
    sg_items,       \* words (segment_languages_ngram) or lines (_lines)
    sg_total,       \* total_segments
    sg_i,           \* i of the for loop
    sg_segmented,   \* segmented
    sg_sources,     \* history: the items each appended segment was made of
    sg_progress,    \* history: the values given to st.progress / progress_bar
    rp_pc,          \* a generate_language_report call: "call" or "done"
    rp_segmented,   \* segmented
    rp_report,      \* the report returned, NoReport before
    ug_page,        \* ungated pages: which page's main() runs
    ug_pc,          \* ungated pages: the statement the current run is at
    ug_runs,        \* ungated pages: runs of main() started so far
    ug_tmp_exists,  \* ungated pages: the temporary file of the run is on disk
    ug_leaked,      \* ungated pages: temporary files earlier runs left on disk
    ug_outcome,     \* history: how the current run ended ("running" until then)
    ug_pages,       \* the page texts of the document in the temporary file
    ug_text,        \* text
    ug_results,     \* language_spans / results
    ug_report,      \* the report shown, NoReport until then
    en_pc,          \* labs detect_language: "call" before, "done" after
    en_fasttext,    \* what fasttext_model.predict(word)[0][0] gives
    en_lingua,      \* what lingua_detector.detect_language_of(word) gives
    en_langid,      \* what langid.classify(word)[0] gives
    en_xlmr,        \* what xlmr_tokenizer.decode(...) gives
    en_result,      \* what detect_language returns
    pg_page,        \* st.session_state.page
    pg_total,       \* total_records
    pg_clicks,      \* button clicks made so far
    pg_last         \* history: the last click, its button and the page before it

rateVars == <<clock, upload_times, calls>>
detectVars == <<dl_pc, dl_lingua, dl_langdetect, dl_result>>
runVars == <<pc, runs, trace, messages, outcome, size, tmp_created, tmp_exists,
             scan, pages, has_text, text, method, n, language_spans, report,
             extract_calls, report_calls, run_vote>>
vars == <<clock, upload_times, calls, dl_pc, dl_lingua, dl_langdetect, dl_result,
          pc, runs, trace, messages, outcome, size, tmp_created, tmp_exists,
          scan, pages, has_text, text, method, n, language_spans, report,
          extract_calls, report_calls, run_vote, t_pc, t_now, t_ret,
          sg_pc, sg_method, sg_text, sg_n, sg_items, sg_total, sg_i,
          sg_segmented, sg_sources, sg_progress, rp_pc, rp_segmented, rp_report,
          ug_page, ug_pc, ug_runs, ug_tmp_exists, ug_leaked, ug_outcome,
          ug_pages, ug_text, ug_results, ug_report,
          en_pc, en_fasttext, en_lingua, en_langid, en_xlmr, en_result,
          pg_page, pg_total, pg_clicks, pg_last>>
threadVars == <<t_pc, t_now, t_ret>>
segVars == <<sg_pc, sg_method, sg_text, sg_n, sg_items, sg_total, sg_i,
             sg_segmented, sg_sources, sg_progress>>
reportVars == <<rp_pc, rp_segmented, rp_report>>
ungatedVars == <<ug_page, ug_pc, ug_runs, ug_tmp_exists, ug_leaked, ug_outcome,
                 ug_pages, ug_text, ug_results, ug_report>>
ensembleVars == <<en_pc, en_fasttext, en_lingua, en_langid, en_xlmr, en_result>>
pageVars == <<pg_page, pg_total, pg_clicks, pg_last>>
otherPagesVars == <<ungatedVars, ensembleVars, pageVars>>

\* Python's None where a Language member is expected, and where a str is
\* expected (a str is a sequence of characters, and no character is "None")
None == "None"
NoneStr == <<"None">>

\* Truth value of an Optional[str]: None and the empty string are false
StrTruthy(s) == s # NoneStr /\ s # <<>>

(***************************************************************************)
(* Strings                                                                 *)
(***************************************************************************)
UpperChars == <<"A","B","C","D","E","F","G","H","I","J","K","L","M",
                "N","O","P","Q","R","S","T","U","V","W","X","Y","Z">>
LowerChars == <<"a","b","c","d","e","f","g","h","i","j","k","l","m",
                "n","o","p","q","r","s","t","u","v","w","x","y","z">>

\* str.lower(): every cased character replaced by its lowercase form
StrLower(s) ==
    [i \in DOMAIN s |->
        IF \E k \in DOMAIN UpperChars : UpperChars[k] = s[i]
        THEN LowerChars[CHOOSE k \in DOMAIN UpperChars : UpperChars[k] = s[i]]
        ELSE s[i]]

\* str.upper()
StrUpper(s) ==
    [i \in DOMAIN s |->
        IF \E k \in DOMAIN LowerChars : LowerChars[k] = s[i]
        THEN UpperChars[CHOOSE k \in DOMAIN LowerChars : LowerChars[k] = s[i]]
        ELSE s[i]]

(***************************************************************************)
(* The language set                                                        *)
(***************************************************************************)
\* LANGUAGES: the members of lingua's Language enum the detector is built from
LANGUAGES == <<"LATIN", "ENGLISH", "GERMAN", "FRENCH", "DUTCH", "ITALIAN", "GREEK">>

LanguageSet == {LANGUAGES[i] : i \in DOMAIN LANGUAGES}

\* Members of the Language enum: the configured ones and, standing for the
\* rest of the enum, SPANISH.
LanguageEnum == LanguageSet \cup {"SPANISH"}

\* Language.<member>.name
LanguageName(l) ==
    CASE l = "LATIN"   -> <<"L","A","T","I","N">>
      [] l = "ENGLISH" -> <<"E","N","G","L","I","S","H">>
      [] l = "GERMAN"  -> <<"G","E","R","M","A","N">>
      [] l = "FRENCH"  -> <<"F","R","E","N","C","H">>
      [] l = "DUTCH"   -> <<"D","U","T","C","H">>
      [] l = "ITALIAN" -> <<"I","T","A","L","I","A","N">>
      [] l = "GREEK"   -> <<"G","R","E","E","K">>
      [] l = "SPANISH" -> <<"S","P","A","N","I","S","H">>

\* Language[key]: the member whose name is key; KeyError when there is none
LanguageLookup(key) ==
    IF \E l \in LanguageEnum : LanguageName(l) = key
    THEN [kind |-> "ok", lang |-> CHOOSE l \in LanguageEnum : LanguageName(l) = key]
    ELSE [kind |-> "KeyError", lang |-> None]

\* The ISO 639-1 code by which langdetect reports a language
LanguageCode(l) ==
    CASE l = "LATIN"   -> <<"l","a">>
      [] l = "ENGLISH" -> <<"e","n">>
      [] l = "GERMAN"  -> <<"d","e">>
      [] l = "FRENCH"  -> <<"f","r">>
      [] l = "DUTCH"   -> <<"n","l">>
      [] l = "ITALIAN" -> <<"i","t">>
      [] l = "GREEK"   -> <<"e","l">>
      [] l = "SPANISH" -> <<"e","s">>

\* What lingua_detector.detect_language_of can give: a configured language or None
LinguaOutcomes == LanguageSet \cup {None}

\* What the try/except around langdetect_detect leaves in langdetect_result:
\* a language code, or None when langdetect raised
LangdetectOutcomes == {LanguageCode(l) : l \in LanguageEnum} \cup {NoneStr}

(***************************************************************************)
(* detect_language                                                         *)
(***************************************************************************)
\* Variant of detect_language: a disagreement is given a confidence of its own
detect_language_Disagree50(lingua_result, langdetect_result) ==
    IF lingua_result # None /\ StrTruthy(langdetect_result)
    THEN IF StrLower(LanguageName(lingua_result)) = StrLower(langdetect_result)
         THEN [kind |-> "return", lang |-> lingua_result, conf |-> 100]
         ELSE [kind |-> "return", lang |-> lingua_result, conf |-> 50]
    ELSE IF lingua_result # None
    THEN [kind |-> "return", lang |-> lingua_result, conf |-> 70]
    ELSE IF StrTruthy(langdetect_result)
    THEN LET found == LanguageLookup(StrUpper(langdetect_result))
         IN  IF found.kind = "ok"
             THEN [kind |-> "return", lang |-> found.lang, conf |-> 60]
             ELSE [kind |-> "KeyError", lang |-> None, conf |-> -1]
    ELSE [kind |-> "return", lang |-> None, conf |-> 0]

\* Variant of detect_language: on a disagreement langdetect's label is taken
detect_language_LangdetectFirst(lingua_result, langdetect_result) ==
    IF lingua_result # None /\ StrTruthy(langdetect_result)
    THEN IF StrLower(LanguageName(lingua_result)) = StrLower(langdetect_result)
         THEN [kind |-> "return", lang |-> lingua_result, conf |-> 100]
         ELSE LET other == LanguageLookup(StrUpper(langdetect_result))
              IN  [kind |-> "return", lang |-> other.lang, conf |-> 70]
    ELSE IF lingua_result # None
    THEN [kind |-> "return", lang |-> lingua_result, conf |-> 70]
    ELSE IF StrTruthy(langdetect_result)
    THEN LET found == LanguageLookup(StrUpper(langdetect_result))
         IN  IF found.kind = "ok"
             THEN [kind |-> "return", lang |-> found.lang, conf |-> 60]
             ELSE [kind |-> "KeyError", lang |-> None, conf |-> -1]
    ELSE [kind |-> "return", lang |-> None, conf |-> 0]

\* The result is [kind, lang, conf]: kind "return" with the pair returned, or
\* kind "KeyError" when Language[...] raises (lang and conf then hold nothing).
detect_language(lingua_result, langdetect_result) ==
    IF lingua_result # None /\ StrTruthy(langdetect_result)
    THEN IF StrLower(LanguageName(lingua_result)) = StrLower(langdetect_result)
         THEN [kind |-> "return", lang |-> lingua_result, conf |-> 100]
         ELSE [kind |-> "return", lang |-> lingua_result, conf |-> 70]
    ELSE IF lingua_result # None
    THEN [kind |-> "return", lang |-> lingua_result, conf |-> 70]
    ELSE IF StrTruthy(langdetect_result)
    THEN LET found == LanguageLookup(StrUpper(langdetect_result))
         IN  IF found.kind = "ok"
             THEN [kind |-> "return", lang |-> found.lang, conf |-> 60]
             ELSE [kind |-> "KeyError", lang |-> None, conf |-> -1]
    ELSE [kind |-> "return", lang |-> None, conf |-> 0]

(***************************************************************************)
(* The rate limiter                                                        *)
(***************************************************************************)
RATE_LIMIT == 5
RATE_LIMIT_PERIOD == 300

\* Calls a behaviour of SpecRate makes
MaxCalls == 7

\* Seconds that pass between one check_rate_limit call and the next
Delays == {0, 2, 150, 300, 301}

\* Variant of EvictOld: a timestamp exactly RATE_LIMIT_PERIOD old is evicted too
RECURSIVE EvictOldInclusive(_, _)
EvictOldInclusive(q, current_time) ==
    IF q # <<>> /\ current_time - Head(q) >= RATE_LIMIT_PERIOD
    THEN EvictOldInclusive(Tail(q), current_time)
    ELSE q

\* The while loop of check_rate_limit: pop from the left while the oldest
\* timestamp is more than RATE_LIMIT_PERIOD old
RECURSIVE EvictOld(_, _)
EvictOld(q, current_time) ==
    IF q # <<>> /\ current_time - Head(q) > RATE_LIMIT_PERIOD
    THEN EvictOld(Tail(q), current_time)
    ELSE q

\* Variant of check_rate_limit: the capacity test is off by one
check_rate_limit_OffByOne(q, current_time) ==
    LET kept == EvictOld(q, current_time)
    IN  IF Len(kept) > RATE_LIMIT
        THEN [ok |-> FALSE, q |-> kept]
        ELSE [ok |-> TRUE, q |-> Append(kept, current_time)]

\* Variant of check_rate_limit: the timestamp is recorded before the
\* capacity test, so a rejected call leaves its timestamp too
check_rate_limit_AppendFirst(q, current_time) ==
    LET kept == EvictOld(q, current_time)
    IN  IF Len(kept) >= RATE_LIMIT
        THEN [ok |-> FALSE, q |-> Append(kept, current_time)]
        ELSE [ok |-> TRUE, q |-> Append(kept, current_time)]

\* check_rate_limit run without interruption at time current_time on the
\* deque q: the value returned and the deque it leaves
check_rate_limit(q, current_time) ==
    LET kept == EvictOld(q, current_time)
    IN  IF Len(kept) >= RATE_LIMIT
        THEN [ok |-> FALSE, q |-> kept]
        ELSE [ok |-> TRUE, q |-> Append(kept, current_time)]

(***************************************************************************)
(* Text, segmentation and the report                                       *)
(***************************************************************************)
\* Characters str.strip() removes
Whitespace == {" ", "\n", "\t"}

\* Characters the regular expression \w matches
Digits == {"0", "1", "2", "3", "4", "5", "6", "7", "8", "9"}
WordChars ==
    {UpperChars[i] : i \in DOMAIN UpperChars}
        \cup {LowerChars[i] : i \in DOMAIN LowerChars} \cup Digits \cup {"_"}

\* str.strip()
RECURSIVE StrStrip(_)
StrStrip(s) ==
    IF s = <<>> THEN s
    ELSE IF Head(s) \in Whitespace THEN StrStrip(Tail(s))
    ELSE IF s[Len(s)] \in Whitespace THEN StrStrip(SubSeq(s, 1, Len(s) - 1))
    ELSE s

\* text.split('\n')
RECURSIVE SplitLines(_)
SplitLines(s) ==
    IF \E i \in DOMAIN s : s[i] = "\n"
    THEN LET i == CHOOSE j \in DOMAIN s :
                      s[j] = "\n" /\ \A k \in 1..(j - 1) : s[k] # "\n"
         IN  <<SubSeq(s, 1, i - 1)>> \o SplitLines(SubSeq(s, i + 1, Len(s)))
    ELSE <<s>>

\* sep.join(parts)
RECURSIVE StrJoin(_, _)
StrJoin(parts, sep) ==
    IF parts = <<>> THEN <<>>
    ELSE IF Len(parts) = 1 THEN parts[1]
    ELSE parts[1] \o sep \o StrJoin(Tail(parts), sep)

\* re.findall(r'\b\w+\b', text): the maximal runs of word characters, in order
RECURSIVE FindWords(_)
FindWords(s) ==
    IF s = <<>> THEN <<>>
    ELSE IF Head(s) \notin WordChars THEN FindWords(Tail(s))
    ELSE LET k == CHOOSE j \in 1..Len(s) :
                      /\ \A i \in 1..j : s[i] \in WordChars
                      /\ j = Len(s) \/ s[j + 1] \notin WordChars
         IN  <<SubSeq(s, 1, k)>> \o FindWords(SubSeq(s, k + 1, Len(s)))

\* items[i:i+n] for i in range(0, len(items), n), in order
Groups(items, group) ==
    [k \in 1..((Len(items) + group - 1) \div group) |->
        SubSeq(items, (k - 1) * group + 1,
               IF k * group < Len(items) THEN k * group ELSE Len(items))]

\* The chunks segment_languages_ngram passes to detect_language
NgramChunks(txt, group) ==
    LET groups == Groups(FindWords(txt), group)
    IN  [k \in DOMAIN groups |-> StrJoin(groups[k], <<" ">>)]

\* The chunks segment_languages_lines passes to detect_language
NonEmptyStr(c) == c # <<>>
LineChunks(txt, group) ==
    LET groups == Groups(SplitLines(txt), group)
    IN  SelectSeq([k \in DOMAIN groups |-> StrStrip(StrJoin(groups[k], <<"\n">>))],
                  NonEmptyStr)

\* The loop body shared by the two segmenters: detect_language on each
\* chunk, votes[k] being what the two classifiers give for the k-th chunk.
\* kind is "KeyError" when detect_language raises for some chunk.
Classified(chunks, votes) ==
    LET res == [k \in DOMAIN chunks |-> detect_language(votes[k][1], votes[k][2])]
    IN  IF \E k \in DOMAIN chunks : res[k].kind # "return"
        THEN [kind |-> "KeyError", segmented |-> <<>>]
        ELSE [kind |-> "return",
              segmented |-> [k \in DOMAIN chunks |->
                  [chunk |-> chunks[k], lang |-> res[k].lang, conf |-> res[k].conf]]]

segment_languages_ngram(txt, group, votes) == Classified(NgramChunks(txt, group), votes)

segment_languages_lines(txt, group, votes) == Classified(LineChunks(txt, group), votes)

\* detect_languages, for the two methods the selectbox offers
detect_languages(txt, meth, group, votes) ==
    IF meth = "ngram" THEN segment_languages_ngram(txt, group, votes)
    ELSE segment_languages_lines(txt, group, votes)

\* lang.name if lang else "Unknown"
Unknown == <<"U","n","k","n","o","w","n">>

\* Variant of TagOf: a segment without a language is given an empty tag
TagOf_Blank(lang) == IF lang # None THEN LanguageName(lang) ELSE <<>>

TagOf(lang) == IF lang # None THEN LanguageName(lang) ELSE Unknown

\* Variant of Counter: a tag seen again keeps its first count
RECURSIVE Counter_FirstOnly(_)
Counter_FirstOnly(items) ==
    IF items = <<>> THEN <<>>
    ELSE LET before == Counter_FirstOnly(SubSeq(items, 1, Len(items) - 1))
             item == items[Len(items)]
         IN  IF \E j \in DOMAIN before : before[j].tag = item
             THEN before
             ELSE Append(before, [tag |-> item, count |-> 1])

\* collections.Counter over a list: its items(), in order of first occurrence
RECURSIVE Counter(_)
Counter(items) ==
    IF items = <<>> THEN <<>>
    ELSE LET before == Counter(SubSeq(items, 1, Len(items) - 1))
             item == items[Len(items)]
         IN  IF \E j \in DOMAIN before : before[j].tag = item
             THEN [j \in DOMAIN before |->
                      IF before[j].tag = item
                      THEN [tag |-> item, count |-> before[j].count + 1]
                      ELSE before[j]]
             ELSE Append(before, [tag |-> item, count |-> 1])

PREVIEW_SEGMENTS == 10
PREVIEW_CHARS == 50
Ellipsis == <<".", ".", ".">>

NoReport == [total |-> -1]

\* The "Segment k:" entry of the report for one (chunk, lang, confidence)
SegmentDetail(seg) ==
    [text |-> IF Len(seg.chunk) > PREVIEW_CHARS
              THEN SubSeq(seg.chunk, 1, PREVIEW_CHARS) \o Ellipsis
              ELSE seg.chunk,
     tag |-> TagOf(seg.lang),
     conf |-> seg.conf]

\* Variant of generate_language_report: the tenth segment is left to the
\* overflow line
generate_language_report_NineShown(segmented) ==
    [total |-> Len(segmented),
     language_counts |-> Counter([k \in DOMAIN segmented |-> TagOf(segmented[k].lang)]),
     details |-> [k \in 1..(IF Len(segmented) >= PREVIEW_SEGMENTS
                            THEN PREVIEW_SEGMENTS - 1 ELSE Len(segmented)) |->
                     SegmentDetail(segmented[k])],
     more |-> IF Len(segmented) >= PREVIEW_SEGMENTS
              THEN <<Len(segmented) - PREVIEW_SEGMENTS + 1>> ELSE <<>>]

\* generate_language_report: the content of the report text.  total is
\* total_segments; language_counts holds the lines of the language
\* distribution (the percentage printed beside a count is
\* count / total_segments * 100); details holds the entries of
\* segmented[:10]; more holds the "... and k more segments" lines, each by
\* its k.
generate_language_report(segmented) ==
    [total |-> Len(segmented),
     language_counts |-> Counter([k \in DOMAIN segmented |-> TagOf(segmented[k].lang)]),
     details |-> [k \in 1..(IF Len(segmented) > PREVIEW_SEGMENTS
                            THEN PREVIEW_SEGMENTS ELSE Len(segmented)) |->
                     SegmentDetail(segmented[k])],
     more |-> IF Len(segmented) > PREVIEW_SEGMENTS
              THEN <<Len(segmented) - PREVIEW_SEGMENTS>> ELSE <<>>]

\* ocr_pdf: the placeholder text
OcrText ==
    <<"O","C","R"," ","t","e","x","t"," ","o","u","t","p","u","t"," ",
      "w","o","u","l","d"," ","g","o"," ","h","e","r","e">>

\* Threads that execute check_rate_limit concurrently
NumThreads == 2
Threads == 1..NumThreads

\* No thread is inside check_rate_limit
NoThreads ==
    /\ t_pc = [t \in Threads |-> "idle"]
    /\ t_now = [t \in Threads |-> 0]
    /\ t_ret = [t \in Threads |-> "none"]

\* No segmenter call is under way
NoSegmenter ==
    /\ sg_pc = "done"
    /\ sg_method = "lines"
    /\ sg_text = <<>>
    /\ sg_n = 2
    /\ sg_items = <<>>
    /\ sg_total = 1
    /\ sg_i = 0
    /\ sg_segmented = <<>>
    /\ sg_sources = <<>>
    /\ sg_progress = <<>>

\* No generate_language_report call is under way
NoReportCall ==
    /\ rp_pc = "done"
    /\ rp_segmented = <<>>
    /\ rp_report = NoReport

\* Nothing happens in the ungated pages, the labs ensemble and the dashboard
NoOtherPages ==
    /\ ug_page = "analysis"
    /\ ug_pc = "idle"
    /\ ug_runs = 0
    /\ ug_tmp_exists = FALSE
    /\ ug_leaked = 0
    /\ ug_outcome = "running"
    /\ ug_pages = <<>>
    /\ ug_text = <<>>
    /\ ug_results = <<>>
    /\ ug_report = NoReport
    /\ en_pc = "done"
    /\ en_fasttext = <<>>
    /\ en_lingua = None
    /\ en_langid = <<>>
    /\ en_xlmr = <<>>
    /\ en_result = <<>>
    /\ pg_page = 1
    /\ pg_total = 0
    /\ pg_clicks = 0
    /\ pg_last = [button |-> "none", before |-> 1]

\* No run of main() has started
NoRun ==
    /\ pc = "idle"
    /\ runs = 0
    /\ trace = <<>>
    /\ messages = <<>>
    /\ outcome = "running"
    /\ size = 0
    /\ tmp_created = FALSE
    /\ tmp_exists = FALSE
    /\ scan = [is_safe |-> TRUE, message |-> "none"]
    /\ pages = <<>>
    /\ has_text = FALSE
    /\ text = <<>>
    /\ method = "lines"
    /\ n = 2
    /\ language_spans = <<>>
    /\ report = NoReport
    /\ extract_calls = 0
    /\ report_calls = 0
    /\ run_vote = <<>>

(***************************************************************************)
(* SpecRate: sequential check_rate_limit calls at non-decreasing times,    *)
(* starting from the empty window                                          *)
(***************************************************************************)
InitRate ==
    /\ clock = 0
    /\ upload_times = <<>>
    /\ calls = <<>>
    /\ dl_pc = "done"
    /\ dl_lingua = None
    /\ dl_langdetect = NoneStr
    /\ dl_result = [kind |-> "none", lang |-> None, conf |-> -1]
    /\ NoRun
    /\ NoThreads
    /\ NoOtherPages
    /\ NoSegmenter
    /\ NoReportCall

\* d seconds after the previous call, check_rate_limit is called
RateCall(d) ==
    /\ Len(calls) < MaxCalls
    /\ LET r == check_rate_limit(upload_times, clock + d)
       IN  /\ clock' = clock + d
           /\ upload_times' = r.q
           /\ calls' = Append(calls, [t |-> clock + d, ok |-> r.ok])
    /\ UNCHANGED <<detectVars, threadVars, segVars, reportVars,
                   otherPagesVars>>
    /\ UNCHANGED runVars

NextRate == \E d \in Delays : RateCall(d)

SpecRate == InitRate /\ [][NextRate]_vars

(***************************************************************************)
(* SpecDetect: detect_language applied to every pair of classifier         *)
(* outcomes                                                                *)
(***************************************************************************)
InitDetect ==
    /\ clock = 0
    /\ upload_times = <<>>
    /\ calls = <<>>
    /\ dl_pc = "call"
    /\ dl_lingua \in LinguaOutcomes
    /\ dl_langdetect \in LangdetectOutcomes
    /\ dl_result = [kind |-> "none", lang |-> None, conf |-> -1]
    /\ NoRun
    /\ NoThreads
    /\ NoOtherPages
    /\ NoSegmenter
    /\ NoReportCall

DetectLanguage ==
    /\ dl_pc = "call"
    /\ dl_result' = detect_language(dl_lingua, dl_langdetect)
    /\ dl_pc' = "done"
    /\ UNCHANGED <<dl_lingua, dl_langdetect>>
    /\ UNCHANGED rateVars
    /\ UNCHANGED runVars
    /\ UNCHANGED <<threadVars, segVars, reportVars,
                   otherPagesVars>>

NextDetect == DetectLanguage

SpecDetect == InitDetect /\ [][NextDetect]_vars

(***************************************************************************)
(* Spec: runs of main() of the gated analyzer, one after the other         *)
(***************************************************************************)
\* Runs of main() a behaviour makes
MaxRuns == 6

\* Largest group size n a behaviour selects (the sliders offer 1..10)
MaxGroup == 3

\* Seconds that pass between one run of main() and the next
RunDelays == {1, 301}

MAX_UPLOAD_BYTES == 10 * 1024 * 1024

\* Values of uploaded_file.size
UploadSizes == {1024, MAX_UPLOAD_BYTES, MAX_UPLOAD_BYTES + 1}

\* What PyPDF2 finds in the temporary file: whether reading it raises
\* (PdfReadError or another exception), the JavaScript marker a page holds,
\* and whether the catalog holds /EmbeddedFiles
PdfStructures ==
    [reading : {"ok", "PdfReadError", "Exception"},
     javascript : {"none", "/JavaScript", "/JS"},
     embedded : BOOLEAN]

scan_pdf_for_malicious_content(pdf) ==
    IF pdf.reading = "PdfReadError"
    THEN [is_safe |-> FALSE, message |-> "Invalid or corrupted PDF file."]
    ELSE IF pdf.reading = "Exception"
    THEN [is_safe |-> FALSE, message |-> "Error scanning PDF: "]
    ELSE IF pdf.javascript # "none"
    THEN [is_safe |-> FALSE,
          message |-> "PDF contains JavaScript, which could be malicious."]
    ELSE IF pdf.embedded
    THEN [is_safe |-> FALSE,
          message |-> "PDF contains embedded files, which could be malicious."]
    ELSE [is_safe |-> TRUE, message |-> "PDF appears safe."]

\* Documents, each the sequence of its pages' texts: a two-page text
\* document, an image-only document, and a document of punctuation only
DocHicLiber ==
    << <<"H","i","c"," ","l","i","b","e","r","\n">>, <<"e","s","t",".">> >>
DocImageOnly == << <<" ", "\n">> >>
DocPunctuation == << <<".", "\n", "\n", ".">> >>
Documents == {DocHicLiber, DocImageOnly, DocPunctuation}

\* What the two classifiers give for the chunks of one run
RunVotes ==
    { <<"LATIN", LanguageCode("LATIN")>>, <<"LATIN", NoneStr>>,
      <<"ENGLISH", LanguageCode("FRENCH")>>, <<None, NoneStr>>,
      <<None, LanguageCode("ENGLISH")>> }

\* has_text_layer: some page has text left after strip()
has_text_layer(doc) == \E i \in DOMAIN doc : StrStrip(doc[i]) # <<>>

\* text = ""; for page in doc: text += page.get_text()
RECURSIVE PageTexts(_)
PageTexts(doc) == IF doc = <<>> THEN <<>> ELSE Head(doc) \o PageTexts(Tail(doc))

StError(m) == [level |-> "error", text |-> m]
StWarning(m) == [level |-> "warning", text |-> m]

Init ==
    /\ clock = 0
    /\ upload_times = <<>>
    /\ calls = <<>>
    /\ dl_pc = "done"
    /\ dl_lingua = None
    /\ dl_langdetect = NoneStr
    /\ dl_result = [kind |-> "none", lang |-> None, conf |-> -1]
    /\ NoRun
    /\ NoThreads
    /\ NoOtherPages
    /\ NoSegmenter
    /\ NoReportCall

\* d seconds after the previous run began, main() is entered; uploaded
\* tells whether st.file_uploader holds a file
StartRun(d, uploaded) ==
    /\ pc \in {"idle", "done"}
    /\ runs < MaxRuns
    /\ clock' = clock + d
    /\ runs' = runs + 1
    /\ trace' = <<>>
    /\ messages' = <<>>
    /\ size' = 0
    /\ tmp_created' = FALSE
    /\ tmp_exists' = FALSE
    /\ scan' = [is_safe |-> TRUE, message |-> "none"]
    /\ pages' = <<>>
    /\ has_text' = FALSE
    /\ text' = <<>>
    /\ method' = "lines"
    /\ n' = 2
    /\ language_spans' = <<>>
    /\ report' = NoReport
    /\ extract_calls' = 0
    /\ report_calls' = 0
    /\ run_vote' = <<>>
    /\ IF uploaded
       THEN pc' = "rate" /\ outcome' = "running"
       ELSE pc' = "done" /\ outcome' = "NoUpload"
    /\ UNCHANGED <<upload_times, calls>>
    /\ UNCHANGED <<detectVars, threadVars, segVars, reportVars,
                   otherPagesVars>>

\* Variant of RateCheck: the return after st.error is missing
RateCheck_NoReturn ==
    /\ pc = "rate"
    /\ LET r == check_rate_limit(upload_times, clock)
       IN  /\ upload_times' = r.q
           /\ trace' = Append(trace, "check_rate_limit")
           /\ pc' = "type"
           /\ IF r.ok
              THEN UNCHANGED <<messages, outcome>>
              ELSE /\ messages' = Append(messages,
                       StError("Rate limit exceeded. Please wait before uploading again."))
                   /\ outcome' = "RateLimitExceeded"
    /\ UNCHANGED <<clock, calls, runs, run_vote, size, tmp_created,
                   tmp_exists, scan, pages, has_text, text, method, n,
                   language_spans, report, extract_calls, report_calls>>
    /\ UNCHANGED <<detectVars, threadVars, segVars, reportVars,
                   otherPagesVars>>

\* if not check_rate_limit(): st.error(...); return
RateCheck ==
    /\ pc = "rate"
    /\ LET r == check_rate_limit(upload_times, clock)
       IN  /\ upload_times' = r.q
           /\ trace' = Append(trace, "check_rate_limit")
           /\ IF r.ok
              THEN pc' = "type" /\ UNCHANGED <<messages, outcome>>
              ELSE /\ messages' = Append(messages,
                       StError("Rate limit exceeded. Please wait before uploading again."))
                   /\ outcome' = "RateLimitExceeded"
                   /\ pc' = "done"
    /\ UNCHANGED <<clock, calls, runs, run_vote, size, tmp_created,
                   tmp_exists, scan, pages, has_text, text, method, n,
                   language_spans, report, extract_calls, report_calls>>
    /\ UNCHANGED <<detectVars, threadVars, segVars, reportVars,
                   otherPagesVars>>

\* Variant of TypeCheck: the return after st.error is missing
TypeCheck_NoReturn(is_pdf) ==
    /\ pc = "type"
    /\ trace' = Append(trace, "is_valid_pdf")
    /\ pc' = "hash"
    /\ IF is_pdf
       THEN UNCHANGED <<messages, outcome>>
       ELSE /\ messages' = Append(messages,
                StError("Invalid file type. Please upload a PDF file."))
            /\ outcome' = "InvalidFormat"
    /\ UNCHANGED <<clock, upload_times, calls, runs, run_vote, size,
                   tmp_created, tmp_exists, scan, pages, has_text, text,
                   method, n, language_spans, report, extract_calls,
                   report_calls>>
    /\ UNCHANGED <<detectVars, threadVars, segVars, reportVars,
                   otherPagesVars>>

\* if not is_valid_pdf(uploaded_file): st.error(...); return
TypeCheck(is_pdf) ==
    /\ pc = "type"
    /\ trace' = Append(trace, "is_valid_pdf")
    /\ IF is_pdf
       THEN pc' = "hash" /\ UNCHANGED <<messages, outcome>>
       ELSE /\ messages' = Append(messages,
                StError("Invalid file type. Please upload a PDF file."))
            /\ outcome' = "InvalidFormat"
            /\ pc' = "done"
    /\ UNCHANGED <<clock, upload_times, calls, runs, run_vote, size,
                   tmp_created, tmp_exists, scan, pages, has_text, text,
                   method, n, language_spans, report, extract_calls,
                   report_calls>>
    /\ UNCHANGED <<detectVars, threadVars, segVars, reportVars,
                   otherPagesVars>>

\* file_hash = get_file_hash(uploaded_file); st.write(...)
HashCompute ==
    /\ pc = "hash"
    /\ trace' = Append(trace, "get_file_hash")
    /\ pc' = "size"
    /\ UNCHANGED <<clock, upload_times, calls, runs, run_vote, messages,
                   outcome, size, tmp_created, tmp_exists, scan, pages,
                   has_text, text, method, n, language_spans, report,
                   extract_calls, report_calls>>
    /\ UNCHANGED <<detectVars, threadVars, segVars, reportVars,
                   otherPagesVars>>

\* Variant of SizeCheck: a file of exactly the ceiling is rejected too
SizeCheck_Inclusive(bytes) ==
    /\ pc = "size"
    /\ size' = bytes
    /\ trace' = Append(trace, "size_check")
    /\ IF bytes >= MAX_UPLOAD_BYTES
       THEN /\ messages' = Append(messages,
                StError("File is too large. Please upload a file smaller than 10 MB."))
            /\ outcome' = "OversizeError"
            /\ pc' = "done"
       ELSE pc' = "tmp" /\ UNCHANGED <<messages, outcome>>
    /\ UNCHANGED <<clock, upload_times, calls, runs, run_vote, tmp_created,
                   tmp_exists, scan, pages, has_text, text, method, n,
                   language_spans, report, extract_calls, report_calls>>
    /\ UNCHANGED <<detectVars, threadVars, segVars, reportVars,
                   otherPagesVars>>

\* if uploaded_file.size > 10 * 1024 * 1024: st.error(...); return
SizeCheck(bytes) ==
    /\ pc = "size"
    /\ size' = bytes
    /\ trace' = Append(trace, "size_check")
    /\ IF bytes > MAX_UPLOAD_BYTES
       THEN /\ messages' = Append(messages,
                StError("File is too large. Please upload a file smaller than 10 MB."))
            /\ outcome' = "OversizeError"
            /\ pc' = "done"
       ELSE pc' = "tmp" /\ UNCHANGED <<messages, outcome>>
    /\ UNCHANGED <<clock, upload_times, calls, runs, run_vote, tmp_created,
                   tmp_exists, scan, pages, has_text, text, method, n,
                   language_spans, report, extract_calls, report_calls>>
    /\ UNCHANGED <<detectVars, threadVars, segVars, reportVars,
                   otherPagesVars>>

\* with tempfile.NamedTemporaryFile(delete=False, suffix='.pdf') as tmp_file:
\*     tmp_file.write(uploaded_file.getvalue()); tmp_file_path = tmp_file.name
\* The file is created on entry and kept on exit (delete=False).  When the
\* write raises, the exception leaves main() here: the try statement that
\* follows has not been entered.
CreateTemp(written) ==
    /\ pc = "tmp"
    /\ tmp_created' = TRUE
    /\ tmp_exists' = TRUE
    /\ trace' = Append(trace, "NamedTemporaryFile")
    /\ IF written
       THEN pc' = "scan" /\ UNCHANGED outcome
       ELSE pc' = "done" /\ outcome' = "Raised"
    /\ UNCHANGED <<clock, upload_times, calls, runs, run_vote, messages, size,
                   scan, pages, has_text, text, method, n, language_spans,
                   report, extract_calls, report_calls>>
    /\ UNCHANGED <<detectVars, threadVars, segVars, reportVars,
                   otherPagesVars>>

\* Variant of ScanContent: the return after st.error(message) is missing
ScanContent_NoReturn(pdf) ==
    /\ pc = "scan"
    /\ LET r == scan_pdf_for_malicious_content(pdf)
       IN  /\ scan' = r
           /\ trace' = Append(trace, "scan_pdf_for_malicious_content")
           /\ pc' = "info"
           /\ IF r.is_safe
              THEN UNCHANGED <<messages, outcome>>
              ELSE /\ messages' = Append(messages, StError(r.message))
                   /\ outcome' = IF pdf.reading = "ok" THEN "MaliciousContentDetected"
                                 ELSE "CorruptDocument"
    /\ UNCHANGED <<clock, upload_times, calls, runs, run_vote, size,
                   tmp_created, tmp_exists, pages, has_text, text, method, n,
                   language_spans, report, extract_calls, report_calls>>
    /\ UNCHANGED <<detectVars, threadVars, segVars, reportVars,
                   otherPagesVars>>

\* is_safe, message = scan_pdf_for_malicious_content(tmp_file_path)
\* if not is_safe: st.error(message); return      (inside try ... finally)
ScanContent(pdf) ==
    /\ pc = "scan"
    /\ LET r == scan_pdf_for_malicious_content(pdf)
       IN  /\ scan' = r
           /\ trace' = Append(trace, "scan_pdf_for_malicious_content")
           /\ IF r.is_safe
              THEN pc' = "info" /\ UNCHANGED <<messages, outcome>>
              ELSE /\ messages' = Append(messages, StError(r.message))
                   /\ outcome' = IF pdf.reading = "ok" THEN "MaliciousContentDetected"
                                 ELSE "CorruptDocument"
                   /\ pc' = "finally"
    /\ UNCHANGED <<clock, upload_times, calls, runs, run_vote, size,
                   tmp_created, tmp_exists, pages, has_text, text, method, n,
                   language_spans, report, extract_calls, report_calls>>
    /\ UNCHANGED <<detectVars, threadVars, segVars, reportVars,
                   otherPagesVars>>

\* has_text = has_text_layer(tmp_file_path), doc being what fitz reads from the
\* file; opened tells whether fitz.open succeeds
FileInfo(doc, opened) ==
    /\ pc = "info"
    /\ trace' = Append(trace, "has_text_layer")
    /\ extract_calls' = extract_calls + 1
    /\ IF opened
       THEN /\ pages' = doc
            /\ has_text' = has_text_layer(doc)
            /\ pc' = "extract"
            /\ UNCHANGED outcome
       ELSE /\ outcome' = "Raised"
            /\ pc' = "finally"
            /\ UNCHANGED <<pages, has_text>>
    /\ UNCHANGED <<clock, upload_times, calls, runs, run_vote, messages, size,
                   tmp_created, tmp_exists, scan, text, method, n,
                   language_spans, report, report_calls>>
    /\ UNCHANGED <<detectVars, threadVars, segVars, reportVars,
                   otherPagesVars>>

\* if has_text: text = the pages' texts, else: text = ocr_pdf(tmp_file_path)
ExtractText ==
    /\ pc = "extract"
    /\ extract_calls' = extract_calls + 1
    /\ IF has_text
       THEN text' = PageTexts(pages) /\ trace' = Append(trace, "get_text")
       ELSE text' = OcrText /\ trace' = Append(trace, "ocr_pdf")
    /\ pc' = "options"
    /\ UNCHANGED <<clock, upload_times, calls, runs, run_vote, messages,
                   outcome, size, tmp_created, tmp_exists, scan, pages,
                   has_text, method, n, language_spans, report, report_calls>>
    /\ UNCHANGED <<detectVars, threadVars, segVars, reportVars,
                   otherPagesVars>>

\* The selectbox, the slider and the Analyze button
Options(meth, group, pressed) ==
    /\ pc = "options"
    /\ method' = meth
    /\ n' = group
    /\ IF pressed
       THEN pc' = "analyze" /\ UNCHANGED outcome
       ELSE pc' = "finally" /\ outcome' = "NotAnalyzed"
    /\ UNCHANGED <<clock, upload_times, calls, runs, run_vote, trace,
                   messages, size, tmp_created, tmp_exists, scan, pages,
                   has_text, text, language_spans, report, extract_calls,
                   report_calls>>
    /\ UNCHANGED <<detectVars, threadVars, segVars, reportVars,
                   otherPagesVars>>

\* language_spans = detect_languages(text, method=analysis_method, n=n)
\* if not language_spans: st.warning("No text detected in the document.")
Analyze(vote) ==
    /\ pc = "analyze"
    /\ trace' = Append(trace, "detect_languages")
    /\ run_vote' = vote
    /\ LET r == detect_languages(text, method, n, [k \in 1..Len(text) |-> vote])
       IN  IF r.kind # "return"
           THEN /\ outcome' = "Raised"
                /\ pc' = "finally"
                /\ UNCHANGED <<language_spans, messages>>
           ELSE /\ language_spans' = r.segmented
                /\ IF r.segmented = <<>>
                   THEN /\ messages' = Append(messages,
                            StWarning("No text detected in the document."))
                        /\ outcome' = "ExtractionEmpty"
                        /\ pc' = "finally"
                   ELSE /\ pc' = "report"
                        /\ UNCHANGED <<messages, outcome>>
    /\ UNCHANGED <<clock, upload_times, calls, runs, size, tmp_created,
                   tmp_exists, scan, pages, has_text, text, method, n, report,
                   extract_calls, report_calls>>
    /\ UNCHANGED <<detectVars, threadVars, segVars, reportVars,
                   otherPagesVars>>

\* report = generate_language_report(language_spans); the statistics, the
\* download button and st.text(report)
Report ==
    /\ pc = "report"
    /\ trace' = Append(trace, "generate_language_report")
    /\ report' = generate_language_report(language_spans)
    /\ report_calls' = report_calls + 1
    /\ outcome' = "Completed"
    /\ pc' = "finally"
    /\ UNCHANGED <<clock, upload_times, calls, runs, run_vote, messages, size,
                   tmp_created, tmp_exists, scan, pages, has_text, text,
                   method, n, language_spans, extract_calls>>
    /\ UNCHANGED <<detectVars, threadVars, segVars, reportVars,
                   otherPagesVars>>

\* finally: if os.path.exists(tmp_file_path): os.unlink(tmp_file_path)
Finally ==
    /\ pc = "finally"
    /\ tmp_exists' = FALSE
    /\ trace' = IF tmp_exists THEN Append(trace, "unlink") ELSE trace
    /\ pc' = "done"
    /\ UNCHANGED <<clock, upload_times, calls, runs, run_vote, messages,
                   outcome, size, tmp_created, scan, pages, has_text, text,
                   method, n, language_spans, report, extract_calls,
                   report_calls>>
    /\ UNCHANGED <<detectVars, threadVars, segVars, reportVars,
                   otherPagesVars>>

Next ==
    \/ \E d \in RunDelays, uploaded \in BOOLEAN : StartRun(d, uploaded)
    \/ RateCheck
    \/ \E is_pdf \in BOOLEAN : TypeCheck(is_pdf)
    \/ HashCompute
    \/ \E bytes \in UploadSizes : SizeCheck(bytes)
    \/ \E written \in BOOLEAN : CreateTemp(written)
    \/ \E pdf \in PdfStructures : ScanContent(pdf)
    \/ \E doc \in Documents, opened \in BOOLEAN : FileInfo(doc, opened)
    \/ ExtractText
    \/ \E meth \in {"lines", "ngram"}, group \in 1..MaxGroup, pressed \in BOOLEAN :
           Options(meth, group, pressed)
    \/ \E vote \in RunVotes : Analyze(vote)
    \/ Report
    \/ Finally

Spec == Init /\ [][Next]_vars

(***************************************************************************)
(* SpecConc: check_rate_limit executed by several threads on the shared    *)
(* deque.  The function takes no lock, so threads interleave between its   *)
(* statements: reading the clock, the two operands of the while test, the  *)
(* popleft, the length test and the append.                                *)
(***************************************************************************)
\* Calls a behaviour of SpecConc makes in all
MaxConcCalls == 6

\* Seconds that pass before a thread reads the clock
ConcDelays == {0, 301}

InitConc ==
    /\ clock = 0
    /\ upload_times = <<>>
    /\ calls = <<>>
    /\ dl_pc = "done"
    /\ dl_lingua = None
    /\ dl_langdetect = NoneStr
    /\ dl_result = [kind |-> "none", lang |-> None, conf |-> -1]
    /\ NoRun
    /\ NoThreads
    /\ NoOtherPages
    /\ NoSegmenter
    /\ NoReportCall

CallsStarted == Len(calls) + Cardinality({t \in Threads : t_pc[t] # "idle"})

\* The call of thread t ends with result r
Ended(t, r) ==
    /\ t_pc' = [t_pc EXCEPT ![t] = "idle"]
    /\ t_ret' = [t_ret EXCEPT ![t] = r]
    /\ calls' = Append(calls, [t |-> t_now[t], ok |-> (r = "True")])

\* current_time = time.time()
CrlTime(t, d) ==
    /\ t_pc[t] = "idle"
    /\ CallsStarted < MaxConcCalls
    /\ clock' = clock + d
    /\ t_now' = [t_now EXCEPT ![t] = clock + d]
    /\ t_pc' = [t_pc EXCEPT ![t] = "while"]
    /\ t_ret' = [t_ret EXCEPT ![t] = "none"]
    /\ UNCHANGED <<upload_times, calls>>
    /\ UNCHANGED <<detectVars, runVars, segVars, reportVars,
                   otherPagesVars>>

\* while upload_times and ...: the left operand
CrlWhile(t) ==
    /\ t_pc[t] = "while"
    /\ t_pc' = [t_pc EXCEPT ![t] = IF upload_times # <<>> THEN "head" ELSE "len"]
    /\ UNCHANGED <<clock, upload_times, calls, t_now, t_ret>>
    /\ UNCHANGED <<detectVars, runVars, segVars, reportVars,
                   otherPagesVars>>

\* ... current_time - upload_times[0] > RATE_LIMIT_PERIOD: the right operand;
\* upload_times[0] raises IndexError on an empty deque
CrlHead(t) ==
    /\ t_pc[t] = "head"
    /\ IF upload_times = <<>>
       THEN Ended(t, "IndexError")
       ELSE /\ t_pc' = [t_pc EXCEPT ![t] =
                   IF t_now[t] - Head(upload_times) > RATE_LIMIT_PERIOD
                   THEN "popleft" ELSE "len"]
            /\ UNCHANGED <<calls, t_ret>>
    /\ UNCHANGED <<clock, upload_times, t_now>>
    /\ UNCHANGED <<detectVars, runVars, segVars, reportVars,
                   otherPagesVars>>

\* upload_times.popleft(); it raises IndexError on an empty deque
CrlPopleft(t) ==
    /\ t_pc[t] = "popleft"
    /\ IF upload_times = <<>>
       THEN Ended(t, "IndexError") /\ UNCHANGED upload_times
       ELSE /\ upload_times' = Tail(upload_times)
            /\ t_pc' = [t_pc EXCEPT ![t] = "while"]
            /\ UNCHANGED <<calls, t_ret>>
    /\ UNCHANGED <<clock, t_now>>
    /\ UNCHANGED <<detectVars, runVars, segVars, reportVars,
                   otherPagesVars>>

\* if len(upload_times) >= RATE_LIMIT: return False
CrlLen(t) ==
    /\ t_pc[t] = "len"
    /\ IF Len(upload_times) >= RATE_LIMIT
       THEN Ended(t, "False")
       ELSE /\ t_pc' = [t_pc EXCEPT ![t] = "append"]
            /\ UNCHANGED <<calls, t_ret>>
    /\ UNCHANGED <<clock, upload_times, t_now>>
    /\ UNCHANGED <<detectVars, runVars, segVars, reportVars,
                   otherPagesVars>>

\* upload_times.append(current_time); return True
CrlAppend(t) ==
    /\ t_pc[t] = "append"
    /\ upload_times' = Append(upload_times, t_now[t])
    /\ Ended(t, "True")
    /\ UNCHANGED <<clock, t_now>>
    /\ UNCHANGED <<detectVars, runVars, segVars, reportVars,
                   otherPagesVars>>

NextConc ==
    \E t \in Threads :
        \/ \E d \in ConcDelays : CrlTime(t, d)
        \/ CrlWhile(t)
        \/ CrlHead(t)
        \/ CrlPopleft(t)
        \/ CrlLen(t)
        \/ CrlAppend(t)

SpecConc == InitConc /\ [][NextConc]_vars

(***************************************************************************)
(* SpecSeg: one call of segment_languages_ngram or segment_languages_lines *)
(* on a text, one loop iteration at a time                                 *)
(***************************************************************************)
\* Texts: every string of at most MaxTextLen characters over SegAlphabet,
\* and some longer ones
MaxTextLen == 4
SegAlphabet == {"a", "b", " ", "\n", "."}
TextHicLiberEst ==
    <<"H","i","c"," ","l","i","b","e","r"," ","e","s","t",".">>
TextSevenWords ==
    <<"a"," ","b","b",".","a","\n","b"," "," ","a","b","\n","\n","b",",","a">>
TextSixLines ==
    <<" ","a"," ","\n","\n","\n","\n","b"," ","a","\n",".","b">>
SegTexts ==
    UNION {[1..len -> SegAlphabet] : len \in 0..MaxTextLen}
        \cup {TextHicLiberEst, TextSevenWords, TextSixLines}

\* What the two classifiers give for a chunk
SegVotes == {<<"LATIN", <<"l","a">>>>, <<None, NoneStr>>, <<None, <<"e","n">>>>}

InitSeg ==
    /\ clock = 0
    /\ upload_times = <<>>
    /\ calls = <<>>
    /\ dl_pc = "done"
    /\ dl_lingua = None
    /\ dl_langdetect = NoneStr
    /\ dl_result = [kind |-> "none", lang |-> None, conf |-> -1]
    /\ NoRun
    /\ NoThreads
    /\ NoOtherPages
    /\ NoReportCall
    /\ sg_pc = "call"
    /\ sg_method \in {"ngram", "lines"}
    /\ sg_text \in SegTexts
    /\ sg_n \in 1..MaxGroup
    /\ sg_items = <<>>
    /\ sg_total = 1
    /\ sg_i = 0
    /\ sg_segmented = <<>>
    /\ sg_sources = <<>>
    /\ sg_progress = <<>>

\* A progress value is the fraction num / den
ProgressZero == [num |-> 0, den |-> 1]

\* min(1.0, (i // n + 1) / total_segments)
ProgressAt(i, group, total) ==
    LET done == (i \div group) + 1
    IN  [num |-> IF done > total THEN total ELSE done, den |-> total]

\* Variant of SliceOf: the slice runs one item into the next one
SliceOf_Overlap(items, i, group) ==
    SubSeq(items, i + 1, IF i + group + 1 < Len(items) THEN i + group + 1 ELSE Len(items))

\* Variant of SliceOf: the slice stops one item early
SliceOf_Short(items, i, group) ==
    SubSeq(items, i + 1, IF i + group - 1 < Len(items) THEN i + group - 1 ELSE Len(items))

\* items[i:i+n]
SliceOf(items, i, group) ==
    SubSeq(items, i + 1, IF i + group < Len(items) THEN i + group ELSE Len(items))

\* ' '.join(words[i:i+n]), and '\n'.join(lines[i:i+n]).strip()
ChunkOf(meth, part) ==
    IF meth = "ngram" THEN StrJoin(part, <<" ">>)
    ELSE StrStrip(StrJoin(part, <<"\n">>))

\* words = re.findall(...) or lines = text.split('\n'); segmented = [];
\* progress_bar = st.progress(0); total_segments = max(1, len(items) // n)
SegEnter ==
    /\ sg_pc = "call"
    /\ LET items == IF sg_method = "ngram" THEN FindWords(sg_text)
                    ELSE SplitLines(sg_text)
       IN  /\ sg_items' = items
           /\ sg_total' = IF Len(items) \div sg_n < 1 THEN 1 ELSE Len(items) \div sg_n
    /\ sg_progress' = <<ProgressZero>>
    /\ sg_i' = 0
    /\ sg_pc' = "loop"
    /\ UNCHANGED <<sg_method, sg_text, sg_n, sg_segmented, sg_sources>>
    /\ UNCHANGED <<rateVars, detectVars, runVars, threadVars, reportVars,
                   otherPagesVars>>

\* One iteration of the for loop on a chunk that is classified: vote is
\* what the two classifiers give for it
SegClassify(vote) ==
    /\ sg_pc = "loop"
    /\ sg_i < Len(sg_items)
    /\ LET part == SliceOf(sg_items, sg_i, sg_n)
           chunk == ChunkOf(sg_method, part)
           res == detect_language(vote[1], vote[2])
       IN  /\ sg_method = "lines" => chunk # <<>>
           /\ IF res.kind # "return"
              THEN /\ sg_pc' = "raised"
                   /\ UNCHANGED <<sg_i, sg_segmented, sg_sources, sg_progress>>
              ELSE /\ sg_segmented' = Append(sg_segmented,
                          [chunk |-> chunk, lang |-> res.lang, conf |-> res.conf])
                   /\ sg_sources' = Append(sg_sources,
                          [first |-> sg_i + 1, last |-> sg_i + Len(part)])
                   /\ sg_progress' = Append(sg_progress,
                          ProgressAt(sg_i, sg_n, sg_total))
                   /\ sg_i' = sg_i + sg_n
                   /\ UNCHANGED sg_pc
    /\ UNCHANGED <<sg_method, sg_text, sg_n, sg_items, sg_total>>
    /\ UNCHANGED <<rateVars, detectVars, runVars, threadVars, reportVars,
                   otherPagesVars>>

\* One iteration of the for loop of segment_languages_lines on a group of
\* lines that is empty after strip(): if chunk: is false
SegSkip ==
    /\ sg_pc = "loop"
    /\ sg_i < Len(sg_items)
    /\ sg_method = "lines"
    /\ ChunkOf(sg_method, SliceOf(sg_items, sg_i, sg_n)) = <<>>
    /\ sg_progress' = Append(sg_progress, ProgressAt(sg_i, sg_n, sg_total))
    /\ sg_i' = sg_i + sg_n
    /\ UNCHANGED <<sg_pc, sg_method, sg_text, sg_n, sg_items, sg_total,
                   sg_segmented, sg_sources>>
    /\ UNCHANGED <<rateVars, detectVars, runVars, threadVars, reportVars,
                   otherPagesVars>>

\* The range is exhausted: progress_bar.empty(); return segmented
SegReturn ==
    /\ sg_pc = "loop"
    /\ sg_i >= Len(sg_items)
    /\ sg_pc' = "done"
    /\ UNCHANGED <<sg_method, sg_text, sg_n, sg_items, sg_total, sg_i,
                   sg_segmented, sg_sources, sg_progress>>
    /\ UNCHANGED <<rateVars, detectVars, runVars, threadVars, reportVars,
                   otherPagesVars>>

NextSeg ==
    \/ SegEnter
    \/ \E vote \in SegVotes : SegClassify(vote)
    \/ SegSkip
    \/ SegReturn

SpecSeg == InitSeg /\ [][NextSeg]_vars

(***************************************************************************)
(* SpecReport: generate_language_report applied to lists of results        *)
(***************************************************************************)
\* The lists: every non-empty list of at most MaxMixed results over three
\* kinds of result, and every non-empty list of at most MaxSegments results
\* over two of them.  main() generates no report of an empty list.
MaxSegments == 12
MaxMixed == 4
ResultLatin == [chunk |-> <<"a">>, lang |-> "LATIN", conf |-> 70]
ResultUnknown == [chunk |-> <<".">>, lang |-> None, conf |-> 0]
ResultEnglish == [chunk |-> <<"b">>, lang |-> "ENGLISH", conf |-> 70]
ReportInputs ==
    UNION {[1..len -> {ResultLatin, ResultUnknown, ResultEnglish}] : len \in 1..MaxMixed}
        \cup UNION {[1..len -> {ResultLatin, ResultUnknown}] : len \in 1..MaxSegments}

InitReport ==
    /\ clock = 0
    /\ upload_times = <<>>
    /\ calls = <<>>
    /\ dl_pc = "done"
    /\ dl_lingua = None
    /\ dl_langdetect = NoneStr
    /\ dl_result = [kind |-> "none", lang |-> None, conf |-> -1]
    /\ NoRun
    /\ NoThreads
    /\ NoOtherPages
    /\ NoSegmenter
    /\ rp_pc = "call"
    /\ rp_segmented \in ReportInputs
    /\ rp_report = NoReport

GenerateReport ==
    /\ rp_pc = "call"
    /\ rp_report' = generate_language_report(rp_segmented)
    /\ rp_pc' = "done"
    /\ UNCHANGED rp_segmented
    /\ UNCHANGED <<rateVars, detectVars, runVars, threadVars, segVars,
                   otherPagesVars>>

NextReport == GenerateReport

SpecReport == InitReport /\ [][NextReport]_vars

(***************************************************************************)
(* src/pages/01_labs_experimental.py: the four-classifier detect_language, *)
(* process_document and generate_report                                    *)
(***************************************************************************)
\* s.split('__')[-1]: what follows the last separator found from the left
RECURSIVE SplitLast(_)
SplitLast(s) ==
    IF \E k \in 1..(Len(s) - 1) : s[k] = "_" /\ s[k + 1] = "_"
    THEN LET k == CHOOSE j \in 1..(Len(s) - 1) :
                      /\ s[j] = "_" /\ s[j + 1] = "_"
                      /\ \A i \in 1..(j - 1) : ~(s[i] = "_" /\ s[i + 1] = "_")
         IN  SplitLast(SubSeq(s, k + 2, Len(s)))
    ELSE s

\* str(lingua_lang): "Language.LATIN" for a member, "None" for None
LanguagePrefix == <<"L","a","n","g","u","a","g","e",".">>
LinguaStr(l) == IF l = None THEN <<"N","o","n","e">> ELSE LanguagePrefix \o LanguageName(l)

\* The languages the labs page builds its lingua detector from
LabsLanguages == {"ENGLISH", "FRENCH", "LATIN", "GREEK"}

\* votes.most_common(1)[0] of a Counter given by its items(): the first
\* item, in order of first occurrence, with the greatest count
MostCommon(items) ==
    LET best == CHOOSE j \in DOMAIN items :
                    /\ \A i \in DOMAIN items : items[i].count <= items[j].count
                    /\ \A i \in 1..(j - 1) : items[i].count < items[j].count
    IN  items[best]

\* detect_language of the labs page, given what the four models say
labs_detect_language(fasttext_raw, lingua_lang, langid_lang, xlmr_lang) ==
    LET fasttext_lang == SplitLast(fasttext_raw)
        votes == Counter(<<fasttext_lang, LinguaStr(lingua_lang), langid_lang, xlmr_lang>>)
        most_common == MostCommon(votes)
    IN  IF most_common.count > 1 THEN most_common.tag
        ELSE IF lingua_lang \in {"LATIN", "GREEK"} THEN LinguaStr(lingua_lang)
        ELSE most_common.tag

\* process_document: (word, lang) for every word, vote being what the four
\* models give for each of them
process_document(txt, vote) ==
    LET words == FindWords(txt)
    IN  [k \in DOMAIN words |->
            [word |-> words[k],
             lang |-> labs_detect_language(vote[1], vote[2], vote[3], vote[4])]]

LABS_PREVIEW_WORDS == 100

\* generate_report: the content of the report text, as for
\* generate_language_report
generate_report(results) ==
    [total |-> Len(results),
     language_counts |-> Counter([k \in DOMAIN results |-> results[k].lang]),
     details |-> [k \in 1..(IF Len(results) > LABS_PREVIEW_WORDS
                            THEN LABS_PREVIEW_WORDS ELSE Len(results)) |-> results[k]],
     more |-> IF Len(results) > LABS_PREVIEW_WORDS
              THEN <<Len(results) - LABS_PREVIEW_WORDS>> ELSE <<>>]

(***************************************************************************)
(* SpecUngated: runs of main() of the two pages without a gate,            *)
(* 01_multilingual_language_analysis.py and 01_labs_experimental.py        *)
(***************************************************************************)
MaxUngatedRuns == 3

\* What the four models of the labs page give for the words of one run
FasttextLabel(code) == <<"_","_","l","a","b","e","l","_","_">> \o code
TokenS == <<"<","s",">">>
TokenPad == <<"<","p","a","d",">">>
LabsRunVotes ==
    { <<FasttextLabel(<<"l","a">>), "LATIN", <<"l","a">>, TokenS>>,
      <<FasttextLabel(<<"e","n">>), "FRENCH", <<"d","e">>, TokenPad>> }

InitUngated ==
    /\ clock = 0
    /\ upload_times = <<>>
    /\ calls = <<>>
    /\ dl_pc = "done"
    /\ dl_lingua = None
    /\ dl_langdetect = NoneStr
    /\ dl_result = [kind |-> "none", lang |-> None, conf |-> -1]
    /\ NoRun
    /\ NoThreads
    /\ NoOtherPages
    /\ NoSegmenter
    /\ NoReportCall

\* main() of one of the two pages is entered; uploaded tells whether
\* st.file_uploader holds a file.  A temporary file the run before left on
\* disk stays there: every run makes a file of a new name.
UgStart(page, uploaded) ==
    /\ ug_pc \in {"idle", "done"}
    /\ ug_runs < MaxUngatedRuns
    /\ ug_runs' = ug_runs + 1
    /\ ug_page' = page
    /\ ug_leaked' = IF ug_tmp_exists THEN ug_leaked + 1 ELSE ug_leaked
    /\ ug_tmp_exists' = FALSE
    /\ ug_pages' = <<>>
    /\ ug_text' = <<>>
    /\ ug_results' = <<>>
    /\ ug_report' = NoReport
    /\ IF uploaded
       THEN ug_pc' = "tmp" /\ ug_outcome' = "running"
       ELSE ug_pc' = "done" /\ ug_outcome' = "NoUpload"
    /\ UNCHANGED <<rateVars, detectVars, runVars, threadVars, segVars, reportVars,
                   ensembleVars, pageVars>>

\* with tempfile.NamedTemporaryFile(delete=False, suffix='.pdf') as tmp_file:
\*     tmp_file.write(uploaded_file.getvalue()); tmp_file_path = tmp_file.name
UgCreateTemp(written) ==
    /\ ug_pc = "tmp"
    /\ ug_tmp_exists' = TRUE
    /\ IF written
       THEN /\ ug_pc' = IF ug_page = "analysis" THEN "info" ELSE "extract"
            /\ UNCHANGED ug_outcome
       ELSE ug_pc' = "done" /\ ug_outcome' = "Raised"
    /\ UNCHANGED <<ug_page, ug_runs, ug_leaked, ug_pages, ug_text, ug_results,
                   ug_report>>
    /\ UNCHANGED <<rateVars, detectVars, runVars, threadVars, segVars, reportVars,
                   ensembleVars, pageVars>>

\* analysis page: os.path.getsize, has_text = has_text_layer(tmp_file_path)
\* and the st.write calls; fitz.open raises on a file it cannot read
UgFileInfo(doc, opened) ==
    /\ ug_pc = "info"
    /\ IF opened
       THEN ug_pages' = doc /\ ug_pc' = "extract" /\ UNCHANGED ug_outcome
       ELSE ug_pc' = "done" /\ ug_outcome' = "Raised" /\ UNCHANGED ug_pages
    /\ UNCHANGED <<ug_page, ug_runs, ug_tmp_exists, ug_leaked, ug_text,
                   ug_results, ug_report>>
    /\ UNCHANGED <<rateVars, detectVars, runVars, threadVars, segVars, reportVars,
                   ensembleVars, pageVars>>

\* analysis page: if has_text: text = the pages' texts, else: ocr_pdf
UgExtractAnalysis ==
    /\ ug_pc = "extract"
    /\ ug_page = "analysis"
    /\ ug_text' = IF has_text_layer(ug_pages) THEN PageTexts(ug_pages) ELSE OcrText
    /\ ug_pc' = "button"
    /\ UNCHANGED <<ug_page, ug_runs, ug_tmp_exists, ug_leaked, ug_outcome,
                   ug_pages, ug_results, ug_report>>
    /\ UNCHANGED <<rateVars, detectVars, runVars, threadVars, segVars, reportVars,
                   ensembleVars, pageVars>>

\* labs page: doc = fitz.open(tmp_file_path); text = the pages' texts
UgExtractLabs(doc, opened) ==
    /\ ug_pc = "extract"
    /\ ug_page = "labs"
    /\ IF opened
       THEN /\ ug_pages' = doc
            /\ ug_text' = PageTexts(doc)
            /\ ug_pc' = "button"
            /\ UNCHANGED ug_outcome
       ELSE /\ ug_pc' = "done"
            /\ ug_outcome' = "Raised"
            /\ UNCHANGED <<ug_pages, ug_text>>
    /\ UNCHANGED <<ug_page, ug_runs, ug_tmp_exists, ug_leaked, ug_results,
                   ug_report>>
    /\ UNCHANGED <<rateVars, detectVars, runVars, threadVars, segVars, reportVars,
                   ensembleVars, pageVars>>

\* analysis page: the selectbox, the slider and the Analyze button with
\* all it does: detect_languages, then the warning or the report
UgAnalyze(meth, group, pressed, vote) ==
    /\ ug_pc = "button"
    /\ ug_page = "analysis"
    /\ IF ~pressed
       THEN /\ ug_pc' = "unlink"
            /\ ug_outcome' = "NotAnalyzed"
            /\ UNCHANGED <<ug_results, ug_report>>
       ELSE LET r == detect_languages(ug_text, meth, group,
                                      [k \in 1..Len(ug_text) |-> vote])
            IN  IF r.kind # "return"
                THEN /\ ug_pc' = "done"
                     /\ ug_outcome' = "Raised"
                     /\ UNCHANGED <<ug_results, ug_report>>
                ELSE /\ ug_results' = r.segmented
                     /\ ug_pc' = "unlink"
                     /\ IF r.segmented = <<>>
                        THEN ug_outcome' = "ExtractionEmpty" /\ UNCHANGED ug_report
                        ELSE /\ ug_outcome' = "Completed"
                             /\ ug_report' = generate_language_report(r.segmented)
    /\ UNCHANGED <<ug_page, ug_runs, ug_tmp_exists, ug_leaked, ug_pages, ug_text>>
    /\ UNCHANGED <<rateVars, detectVars, runVars, threadVars, segVars, reportVars,
                   ensembleVars, pageVars>>

\* labs page: the Analyze button with all it does: process_document, then
\* the warning or the report
UgAnalyzeLabs(pressed, vote) ==
    /\ ug_pc = "button"
    /\ ug_page = "labs"
    /\ IF ~pressed
       THEN /\ ug_outcome' = "NotAnalyzed"
            /\ UNCHANGED <<ug_results, ug_report>>
       ELSE LET results == process_document(ug_text, vote)
            IN  /\ ug_results' = results
                /\ IF results = <<>>
                   THEN ug_outcome' = "ExtractionEmpty" /\ UNCHANGED ug_report
                   ELSE /\ ug_outcome' = "Completed"
                        /\ ug_report' = generate_report(results)
    /\ ug_pc' = "unlink"
    /\ UNCHANGED <<ug_page, ug_runs, ug_tmp_exists, ug_leaked, ug_pages, ug_text>>
    /\ UNCHANGED <<rateVars, detectVars, runVars, threadVars, segVars, reportVars,
                   ensembleVars, pageVars>>

\* os.unlink(tmp_file_path), the last statement of main()
UgUnlink ==
    /\ ug_pc = "unlink"
    /\ ug_tmp_exists' = FALSE
    /\ ug_pc' = "done"
    /\ UNCHANGED <<ug_page, ug_runs, ug_leaked, ug_outcome, ug_pages, ug_text,
                   ug_results, ug_report>>
    /\ UNCHANGED <<rateVars, detectVars, runVars, threadVars, segVars, reportVars,
                   ensembleVars, pageVars>>

NextUngated ==
    \/ \E page \in {"analysis", "labs"}, uploaded \in BOOLEAN : UgStart(page, uploaded)
    \/ \E written \in BOOLEAN : UgCreateTemp(written)
    \/ \E doc \in Documents, opened \in BOOLEAN : UgFileInfo(doc, opened)
    \/ UgExtractAnalysis
    \/ \E doc \in Documents, opened \in BOOLEAN : UgExtractLabs(doc, opened)
    \/ \E meth \in {"lines", "ngram"}, group \in 1..MaxGroup, pressed \in BOOLEAN,
          vote \in RunVotes : UgAnalyze(meth, group, pressed, vote)
    \/ \E pressed \in BOOLEAN, vote \in LabsRunVotes : UgAnalyzeLabs(pressed, vote)
    \/ UgUnlink

SpecUngated == InitUngated /\ [][NextUngated]_vars

(***************************************************************************)
(* SpecEnsemble: detect_language of the labs page applied to what the four *)
(* models can give for a word                                              *)
(***************************************************************************)
\* ISO 639-1 codes, as fastText (after its "__label__" prefix) and langid
\* give them
LabsCodes == {<<"l","a">>, <<"e","n">>, <<"e","l">>}
FasttextOutcomes == {FasttextLabel(code) : code \in LabsCodes}
LabsLinguaOutcomes == LabsLanguages \cup {None}
\* xlmr_tokenizer.decode of the index of the greater of the two logits of
\* the classification head: the token of id 0 or of id 1
XlmrOutcomes == {TokenS, TokenPad}

InitEnsemble ==
    /\ clock = 0
    /\ upload_times = <<>>
    /\ calls = <<>>
    /\ dl_pc = "done"
    /\ dl_lingua = None
    /\ dl_langdetect = NoneStr
    /\ dl_result = [kind |-> "none", lang |-> None, conf |-> -1]
    /\ NoRun
    /\ NoThreads
    /\ NoSegmenter
    /\ NoReportCall
    /\ ug_page = "labs"
    /\ ug_pc = "idle"
    /\ ug_runs = 0
    /\ ug_tmp_exists = FALSE
    /\ ug_leaked = 0
    /\ ug_outcome = "running"
    /\ ug_pages = <<>>
    /\ ug_text = <<>>
    /\ ug_results = <<>>
    /\ ug_report = NoReport
    /\ pg_page = 1
    /\ pg_total = 0
    /\ pg_clicks = 0
    /\ pg_last = [button |-> "none", before |-> 1]
    /\ en_pc = "call"
    /\ en_fasttext \in FasttextOutcomes
    /\ en_lingua \in LabsLinguaOutcomes
    /\ en_langid \in LabsCodes
    /\ en_xlmr \in XlmrOutcomes
    /\ en_result = <<>>

LabsDetectLanguage ==
    /\ en_pc = "call"
    /\ en_result' = labs_detect_language(en_fasttext, en_lingua, en_langid, en_xlmr)
    /\ en_pc' = "done"
    /\ UNCHANGED <<en_fasttext, en_lingua, en_langid, en_xlmr>>
    /\ UNCHANGED <<rateVars, detectVars, runVars, threadVars, segVars, reportVars,
                   ungatedVars, pageVars>>

NextEnsemble == LabsDetectLanguage

SpecEnsemble == InitEnsemble /\ [][NextEnsemble]_vars

(***************************************************************************)
(* SpecPages: the pagination of the metadata dashboard, src/app.py.  Every *)
(* click of a button is one run of main(); the records come from the       *)
(* cached fetch_all_data(), so that their number is the same in every run. *)
(***************************************************************************)
ROWS_PER_PAGE == 20
MaxRecords == 61
MaxClicks == 6

\* total_pages = -(-total_records // ROWS_PER_PAGE)
TotalPages(total_records) == -((-total_records) \div ROWS_PER_PAGE)

\* Variant of NextPage: the comparison with total_pages admits equality
NextPage_Inclusive(page, total_pages) ==
    IF page <= total_pages THEN page + 1 ELSE page

\* if st.button("Next") and st.session_state.page < total_pages: page += 1
NextPage(page, total_pages) ==
    IF page < total_pages THEN page + 1 ELSE page

\* if st.button("Previous") and st.session_state.page > 1: page -= 1
PreviousPage(page) ==
    IF page > 1 THEN page - 1 ELSE page

InitPages ==
    /\ clock = 0
    /\ upload_times = <<>>
    /\ calls = <<>>
    /\ dl_pc = "done"
    /\ dl_lingua = None
    /\ dl_langdetect = NoneStr
    /\ dl_result = [kind |-> "none", lang |-> None, conf |-> -1]
    /\ NoRun
    /\ NoThreads
    /\ NoSegmenter
    /\ NoReportCall
    /\ ug_page = "analysis"
    /\ ug_pc = "idle"
    /\ ug_runs = 0
    /\ ug_tmp_exists = FALSE
    /\ ug_leaked = 0
    /\ ug_outcome = "running"
    /\ ug_pages = <<>>
    /\ ug_text = <<>>
    /\ ug_results = <<>>
    /\ ug_report = NoReport
    /\ en_pc = "done"
    /\ en_fasttext = <<>>
    /\ en_lingua = None
    /\ en_langid = <<>>
    /\ en_xlmr = <<>>
    /\ en_result = <<>>
    /\ pg_page = 1
    /\ pg_total \in 0..MaxRecords
    /\ pg_clicks = 0
    /\ pg_last = [button |-> "none", before |-> 1]

\* The run of main() in which st.button("Previous") is true
ClickPrevious ==
    /\ pg_clicks < MaxClicks
    /\ pg_clicks' = pg_clicks + 1
    /\ pg_page' = PreviousPage(pg_page)
    /\ pg_last' = [button |-> "Previous", before |-> pg_page]
    /\ UNCHANGED pg_total
    /\ UNCHANGED <<rateVars, detectVars, runVars, threadVars, segVars, reportVars,
                   ungatedVars, ensembleVars>>

\* The run of main() in which st.button("Next") is true
ClickNext ==
    /\ pg_clicks < MaxClicks
    /\ pg_clicks' = pg_clicks + 1
    /\ pg_page' = NextPage(pg_page, TotalPages(pg_total))
    /\ pg_last' = [button |-> "Next", before |-> pg_page]
    /\ UNCHANGED pg_total
    /\ UNCHANGED <<rateVars, detectVars, runVars, threadVars, segVars, reportVars,
                   ungatedVars, ensembleVars>>

NextPages == ClickPrevious \/ ClickNext

SpecPages == InitPages /\ [][NextPages]_vars

(***************************************************************************)
(* Properties of a run of main() (Spec)                                    *)
(***************************************************************************)
\* The five checks of the gate, in the order of the claim
GateOrder ==
    <<"check_rate_limit", "is_valid_pdf", "get_file_hash", "size_check",
      "scan_pdf_for_malicious_content">>

IsGateStep(step) == \E i \in DOMAIN GateOrder : GateOrder[i] = step

\* The gate checks the current run has executed, in the order it executed them
GateStepsRun == SelectSeq(trace, IsGateStep)

\* Extraction, segmentation and report steps
PipelineSteps ==
    {"has_text_layer", "get_text", "ocr_pdf", "detect_languages",
     "generate_language_report"}

\* The ways the gate rejects a request
GateRejections ==
    {"RateLimitExceeded", "InvalidFormat", "OversizeError",
     "MaliciousContentDetected", "CorruptDocument"}

\* The check that rejects with the given outcome
RejectingCheck(o) ==
    CASE o = "RateLimitExceeded" -> "check_rate_limit"
      [] o = "InvalidFormat" -> "is_valid_pdf"
      [] o = "OversizeError" -> "size_check"
      [] o \in {"MaliciousContentDetected", "CorruptDocument"} ->
             "scan_pdf_for_malicious_content"

\* C1: a run with an uploaded file executes the gate checks in the order
\* rate limit, type validation, hash, size check, content scan, none skipped
\* or reordered; extraction, segmentation and report steps come only after
\* all five, and the first failing check ends the request: it is the last
\* check executed and no extraction, segmentation or report step runs.
C1_GateOrderAndFirstFailureEnds ==
    /\ Len(GateStepsRun) <= Len(GateOrder)
    /\ GateStepsRun = SubSeq(GateOrder, 1, Len(GateStepsRun))
    /\ \A i \in DOMAIN trace :
           trace[i] \in PipelineSteps =>
               /\ GateStepsRun = GateOrder
               /\ \A j \in DOMAIN trace : IsGateStep(trace[j]) => j < i
    /\ outcome \in GateRejections =>
           /\ pc \in {"finally", "done"}
           /\ GateStepsRun[Len(GateStepsRun)] = RejectingCheck(outcome)
           /\ \A i \in DOMAIN trace : trace[i] \notin PipelineSteps
    /\ outcome \in {"NotAnalyzed", "ExtractionEmpty", "Completed"} =>
           GateStepsRun = GateOrder

\* A run that the size check rejected, after the rate, type and hash steps
C1_Witness ==
    /\ pc = "done"
    /\ outcome = "OversizeError"
    /\ trace = SubSeq(GateOrder, 1, 4)

\* C2: the Text Extractor (has_text_layer, page text extraction, ocr_pdf) is
\* called only for a document that passed all five gate checks; in a run in
\* which scan_pdf_for_malicious_content reports the document unsafe the number
\* of extraction calls is zero.
C2_NoExtractionUnlessAccepted ==
    /\ ~scan.is_safe => extract_calls = 0
    /\ extract_calls > 0 =>
           /\ GateStepsRun = GateOrder
           /\ scan = [is_safe |-> TRUE, message |-> "PDF appears safe."]
           /\ outcome \notin GateRejections

\* A finished run whose document the scan flagged for JavaScript
C2_Witness ==
    /\ pc = "done"
    /\ tmp_created
    /\ scan = [is_safe |-> FALSE,
               message |-> "PDF contains JavaScript, which could be malicious."]

\* C3: whenever main() returns or raises after the temporary file has been
\* created, the temporary file no longer exists.
C3_TempFileReleased == (pc = "done" /\ tmp_created) => ~tmp_exists

\* C7: every gate rejection produces a user-facing error message and ends the
\* run before any report is generated; a rejection never coexists with a call
\* of generate_language_report or with a report.
C7_RejectionShowsErrorAndNoReport ==
    outcome \in GateRejections =>
        /\ pc \in {"finally", "done"}
        /\ Len(messages) = 1
        /\ messages[1].level = "error"
        /\ report_calls = 0
        /\ report = NoReport
        /\ \A i \in DOMAIN trace : trace[i] # "generate_language_report"

\* A run the rate limiter rejected
C7_Witness ==
    /\ pc = "done"
    /\ outcome = "RateLimitExceeded"
    /\ messages =
           <<StError("Rate limit exceeded. Please wait before uploading again.")>>

(***************************************************************************)
(* Properties of concurrent check_rate_limit calls (SpecConc)              *)
(***************************************************************************)
\* C6: when several requests execute check_rate_limit concurrently, their
\* evict / count-check / append steps are serialized, so that no interleaving
\* lets more than RATE_LIMIT requests pass within one window of
\* RATE_LIMIT_PERIOD seconds or leaves the window with more than RATE_LIMIT
\* timestamps.
C6_NoInterleavingExceedsLimit ==
    /\ Len(upload_times) <= RATE_LIMIT
    /\ \A k \in 1..Len(calls) :
           calls[k].ok =>
               Cardinality({j \in 1..Len(calls) :
                   /\ calls[j].ok
                   /\ calls[j].t <= calls[k].t
                   /\ calls[k].t - calls[j].t <= RATE_LIMIT_PERIOD}) <= RATE_LIMIT

\* Beside C6: an interleaved call never fails on the deque it shares
\* (upload_times[0] and popleft raise IndexError on an empty deque).
NoIndexErrorInCall == \A t \in Threads : t_ret[t] # "IndexError"

(***************************************************************************)
(* Properties of the rate limiter (SpecRate)                               *)
(***************************************************************************)
\* The first five calls of the behaviour were made within 10 seconds
FirstFiveWithinTen == Len(calls) >= 5 /\ calls[5].t - calls[1].t <= 10

\* No call after the fifth and before the k-th was admitted
NoneAdmittedSinceFive(k) == \A j \in 6..(k - 1) : ~calls[j].ok

\* C4 (as amended): from the empty window, five calls made within 10 seconds
\* all succeed; after them, as long as no further call was admitted, a call is
\* rejected while at most 300 seconds have passed since the first of the five
\* and succeeds once more than 300 seconds have passed since it.
C4_FiveThenRejectThenAdmit ==
    FirstFiveWithinTen =>
        /\ \A i \in 1..5 : calls[i].ok
        /\ \A k \in 6..Len(calls) :
               NoneAdmittedSinceFive(k) =>
                   (calls[k].ok <=> calls[k].t - calls[1].t > RATE_LIMIT_PERIOD)

\* C4 as stated: ... a sixth call within the same 300-second window is
\* rejected, and a call made once 300 seconds have elapsed since those uploads
\* succeeds.
C4_AsStated ==
    FirstFiveWithinTen =>
        /\ \A i \in 1..5 : calls[i].ok
        /\ \A k \in 6..Len(calls) :
               NoneAdmittedSinceFive(k) =>
                   /\ calls[k].t - calls[1].t < RATE_LIMIT_PERIOD => ~calls[k].ok
                   /\ calls[k].t - calls[5].t >= RATE_LIMIT_PERIOD => calls[k].ok

\* Five quick uploads, the sixth rejected inside the window, the seventh
\* admitted after the window has passed
C4_Witness ==
    /\ FirstFiveWithinTen
    /\ Len(calls) >= 7
    /\ calls[5].t > calls[1].t
    /\ ~calls[6].ok /\ calls[6].t - calls[1].t < RATE_LIMIT_PERIOD
    /\ calls[7].ok /\ calls[7].t - calls[1].t > RATE_LIMIT_PERIOD

\* The admitted calls among the first k whose time lies in the window of
\* RATE_LIMIT_PERIOD seconds that ends at the k-th call
AdmittedInWindow(k) ==
    {j \in 1..k : calls[j].ok /\ calls[k].t - calls[j].t <= RATE_LIMIT_PERIOD}

\* C5: of sequential calls at non-decreasing times, at most RATE_LIMIT are
\* admitted within any trailing window of RATE_LIMIT_PERIOD seconds, and
\* upload_times never holds more than RATE_LIMIT timestamps.
C5_AtMostRPerWindow ==
    /\ Len(upload_times) <= RATE_LIMIT
    /\ \A k \in 1..Len(calls) :
           calls[k].ok => Cardinality(AdmittedInWindow(k)) <= RATE_LIMIT

\* The window is full, a call has been rejected, and more than RATE_LIMIT
\* calls have been admitted in all
C5_Witness ==
    /\ Len(upload_times) = RATE_LIMIT
    /\ \E k \in 1..Len(calls) : ~calls[k].ok
    /\ Cardinality({j \in 1..Len(calls) : calls[j].ok}) > RATE_LIMIT

(***************************************************************************)
(* Properties of detect_language (SpecDetect)                              *)
(***************************************************************************)
LinguaVoted == dl_lingua # None
LangdetectVoted == StrTruthy(dl_langdetect)

\* C8: whatever the two classifiers give, a confidence detect_language
\* returns is one of 0.0, 0.6, 0.7, 1.0.
C8_ConfidenceLadder ==
    (dl_pc = "done" /\ dl_result.kind = "return") =>
        dl_result.conf \in {0, 60, 70, 100}

\* Both classifiers voted, differently, and a pair was returned
C8_Witness ==
    /\ dl_pc = "done"
    /\ LinguaVoted /\ LangdetectVoted
    /\ dl_result.kind = "return"
    /\ dl_result.conf = 70

\* C9: when exactly one of the two classifiers votes, detect_language returns
\* that classifier's label with confidence 0.6, whichever classifier it is.
C9_SingleVoteIsSixty ==
    dl_pc = "done" =>
        /\ (LinguaVoted /\ ~LangdetectVoted) =>
               dl_result = [kind |-> "return", lang |-> dl_lingua, conf |-> 60]
        /\ (~LinguaVoted /\ LangdetectVoted) =>
               /\ dl_result.kind = "return"
               /\ dl_result.conf = 60
               /\ dl_result.lang \in LanguageEnum
               /\ LanguageCode(dl_result.lang) = dl_langdetect

\* C10: when both classifiers vote for the same language, lingua by its name
\* and langdetect by its code, detect_language returns it with confidence 1.0.
C10_AgreementIsFull ==
    (dl_pc = "done" /\ LinguaVoted /\ dl_langdetect = LanguageCode(dl_lingua)) =>
        dl_result = [kind |-> "return", lang |-> dl_lingua, conf |-> 100]

\* C11: when both classifiers vote and their votes name different languages,
\* detect_language returns lingua's label with confidence 0.7, whatever
\* langdetect named (the result depends on the pair of votes alone).
C11_DisagreementTakesLingua ==
    (dl_pc = "done" /\ LinguaVoted /\ LangdetectVoted
        /\ dl_langdetect # LanguageCode(dl_lingua)) =>
        dl_result = [kind |-> "return", lang |-> dl_lingua, conf |-> 70]

\* lingua said German, langdetect said French, and German was returned at 0.7
C11_Witness ==
    /\ dl_pc = "done"
    /\ dl_lingua = "GERMAN"
    /\ dl_langdetect = <<"f","r">>
    /\ dl_result = [kind |-> "return", lang |-> "GERMAN", conf |-> 70]

(***************************************************************************)
(* Properties of the classification and the report of a run (Spec)         *)
(***************************************************************************)
\* C12: in a run where both classifiers abstain, every segment is given no
\* label and confidence 0.0, and the report counts all of them under
\* "Unknown" and shows "Unknown" as the detected language of each.
C12_AbstentionIsUnknown ==
    run_vote = <<None, NoneStr>> =>
        /\ \A k \in DOMAIN language_spans :
               language_spans[k].lang = None /\ language_spans[k].conf = 0
        /\ report # NoReport =>
               /\ report.language_counts =
                      <<[tag |-> Unknown, count |-> Len(language_spans)]>>
               /\ \A k \in DOMAIN report.details :
                      report.details[k].tag = Unknown /\ report.details[k].conf = 0

\* A run of two segments on which both classifiers abstained showed its report
C12_Witness ==
    /\ pc = "done"
    /\ outcome = "Completed"
    /\ run_vote = <<None, NoneStr>>
    /\ Len(language_spans) = 2
    /\ Len(report.details) = 2

(***************************************************************************)
(* Properties of the segmenters (SpecSeg)                                  *)
(***************************************************************************)
\* The chunks a call on sg_text hands to detect_language, as main() sees them
ChunksOfCall ==
    IF sg_method = "ngram" THEN NgramChunks(sg_text, sg_n)
    ELSE LineChunks(sg_text, sg_n)

\* The loop, run to its end, classifies exactly the chunks of ChunksOfCall
SegLoopMatchesChunks ==
    sg_pc = "done" =>
        [k \in DOMAIN sg_segmented |-> sg_segmented[k].chunk] = ChunksOfCall

\* C13: a failure inside a classifier (an exception of a classifier, or one
\* raised while its result is converted to a Language) never ends a
\* segmenter call: the call does not raise, and it returns one result for
\* every chunk.
C13_ClassifierFailureIsolated ==
    /\ sg_pc # "raised"
    /\ sg_pc = "done" => Len(sg_segmented) = Len(ChunksOfCall)

\* C14: under both strategies and for every text and n, the segments are
\* appended in source order and are made of disjoint parts of the text (each
\* is the chunk of a run of consecutive items, and the run of a segment
\* begins after the run of the segment before it ends), and no segment of
\* the list is empty after trimming.
C14_SegmentsOrderedDisjointNonEmpty ==
    /\ Len(sg_sources) = Len(sg_segmented)
    /\ \A k \in DOMAIN sg_segmented :
           /\ StrStrip(sg_segmented[k].chunk) # <<>>
           /\ 1 <= sg_sources[k].first
           /\ sg_sources[k].first <= sg_sources[k].last
           /\ sg_sources[k].last <= Len(sg_items)
           /\ sg_sources[k].last - sg_sources[k].first < sg_n
           /\ sg_segmented[k].chunk =
                  ChunkOf(sg_method,
                          SubSeq(sg_items, sg_sources[k].first, sg_sources[k].last))
           /\ k > 1 => sg_sources[k - 1].last < sg_sources[k].first

\* segment_languages_lines with n = 2 returned two segments from six lines,
\* having discarded the group of two lines that was empty after trimming
C14_Witness ==
    /\ sg_pc = "done"
    /\ sg_method = "lines"
    /\ sg_text = TextSixLines
    /\ sg_n = 2
    /\ Len(sg_segmented) = 2
    /\ sg_sources[2].first = 5

\* The chunks of the segments appended so far
SegChunks == [k \in DOMAIN sg_segmented |-> sg_segmented[k].chunk]

\* C15: segment_languages_ngram on a text of k word tokens returns exactly
\* ceil(k / n) segments; every segment but possibly the last holds exactly n
\* tokens, the last between 1 and n, each joined by single spaces; and the
\* segments joined by single spaces give back the token sequence of the text.
C15_NgramGroupsOfN ==
    (sg_pc = "done" /\ sg_method = "ngram") =>
        LET words == FindWords(sg_text)
        IN  /\ Len(sg_segmented) = (Len(words) + sg_n - 1) \div sg_n
            /\ \A j \in DOMAIN sg_segmented :
                   LET tokens == FindWords(SegChunks[j])
                   IN  /\ SegChunks[j] = StrJoin(tokens, <<" ">>)
                       /\ 1 <= Len(tokens) /\ Len(tokens) <= sg_n
                       /\ j < Len(sg_segmented) => Len(tokens) = sg_n
            /\ FindWords(StrJoin(SegChunks, <<" ">>)) = words

\* "Hic liber est." with n = 3 gave the single segment "Hic liber est"
C15_Witness ==
    /\ sg_pc = "done"
    /\ sg_method = "ngram"
    /\ sg_text = TextHicLiberEst
    /\ sg_n = 3
    /\ SegChunks = <<SubSeq(TextHicLiberEst, 1, 13)>>

\* Comparison of two progress values
ProgressLeq(a, b) == a.num * b.den <= b.num * a.den

\* The progress values reported so far never decrease and lie in [0, 1]
ProgressMonotoneInRange ==
    /\ \A k \in DOMAIN sg_progress :
           0 <= sg_progress[k].num /\ sg_progress[k].num <= sg_progress[k].den
    /\ \A k \in 2..Len(sg_progress) : ProgressLeq(sg_progress[k - 1], sg_progress[k])

\* The last progress value reported is 1.0
ProgressEndsAtOne ==
    /\ sg_progress # <<>>
    /\ sg_progress[Len(sg_progress)].num = sg_progress[Len(sg_progress)].den

\* A call whose loop has at least one item to walk ends its progress at 1.0
ProgressEndsAtOneWithItems ==
    (sg_pc = "done" /\ sg_items # <<>>) => ProgressEndsAtOne

\* C16: the progress values a segmenter reports never decrease, lie in
\* [0, 1], and the last one reported before it returns is exactly 1.0, for
\* every text, a text without word tokens included.
C16_ProgressEndsAtOne ==
    /\ ProgressMonotoneInRange
    /\ sg_pc = "done" => ProgressEndsAtOne

(***************************************************************************)
(* Properties of generate_language_report (SpecReport)                     *)
(***************************************************************************)
\* C17: the report lists the first min(total, 10) segments, in the order of
\* the list, and holds an overflow line, giving total - 10, exactly when
\* the list holds more than 10 segments.
C17_PreviewAndOverflow ==
    rp_pc = "done" =>
        LET total == Len(rp_segmented)
        IN  /\ Len(rp_report.details) = IF total < 10 THEN total ELSE 10
            /\ \A k \in DOMAIN rp_report.details :
                   rp_report.details[k] = SegmentDetail(rp_segmented[k])
            /\ rp_report.more # <<>> <=> total > 10
            /\ total > 10 => rp_report.more = <<total - 10>>

\* A report of eleven segments: ten listed and "... and 1 more segments"
C17_Witness ==
    /\ rp_pc = "done"
    /\ Len(rp_segmented) = 11
    /\ Len(rp_report.details) = 10
    /\ rp_report.more = <<1>>

\* The tags of the segments of the list, "Unknown" for a segment without a
\* language
TagsOccurring == {TagOf(rp_segmented[k].lang) : k \in DOMAIN rp_segmented}

RECURSIVE SumOfCounts(_)
SumOfCounts(entries) ==
    IF entries = <<>> THEN 0
    ELSE entries[1].count + SumOfCounts(Tail(entries))

\* C18: the language distribution of the report holds exactly one entry for
\* each tag that occurs among the segments ("Unknown" included) and none for
\* another tag, each entry counts the segments of its tag, and the counts
\* add up to the number of segments.
C18_DistributionCountsEveryTag ==
    rp_pc = "done" =>
        LET dist == rp_report.language_counts
        IN  /\ {dist[j].tag : j \in DOMAIN dist} = TagsOccurring
            /\ \A i, j \in DOMAIN dist : dist[i].tag = dist[j].tag => i = j
            /\ \A j \in DOMAIN dist :
                   dist[j].count =
                       Cardinality({k \in DOMAIN rp_segmented :
                                       TagOf(rp_segmented[k].lang) = dist[j].tag})
            /\ SumOfCounts(dist) = Len(rp_segmented)
            /\ rp_report.total = Len(rp_segmented)

\* A report of four segments of three tags, two of them "Unknown"
C18_Witness ==
    /\ rp_pc = "done"
    /\ Len(rp_segmented) = 4
    /\ Len(rp_report.language_counts) = 3
    /\ \E j \in DOMAIN rp_report.language_counts :
           rp_report.language_counts[j] = [tag |-> Unknown, count |-> 2]

(***************************************************************************)
(* Properties of extraction and analysis in a run of main() (Spec)         *)
(***************************************************************************)
\* The current run has executed the step
HasRun(step) == \E i \in DOMAIN trace : trace[i] = step

\* C19: a run on a document without text layer, for which ocr_pdf is
\* called while no OCR is available, extracts the empty text, generates no
\* report, and, once analysed, ends with the "No text detected" warning.
C19_ImageOnlyEndsEmpty ==
    HasRun("ocr_pdf") =>
        /\ text = <<>>
        /\ report = NoReport
        /\ (pc = "done" /\ HasRun("detect_languages")) =>
               /\ outcome = "ExtractionEmpty"
               /\ messages = <<StWarning("No text detected in the document.")>>

\* What the model shows instead: a run on the image-only document that
\* ended with a report of the placeholder text
ImageOnlyRunReported ==
    /\ pc = "done"
    /\ HasRun("ocr_pdf")
    /\ pages = DocImageOnly
    /\ text = OcrText
    /\ outcome = "Completed"
    /\ report # NoReport

\* The chunks the analysis of the current run hands to detect_language
ChunksOfRun ==
    IF method = "ngram" THEN NgramChunks(text, n) ELSE LineChunks(text, n)

\* Neither classifier gives a language: lingua abstains, and langdetect
\* abstains (its exception is caught) or names a code that cannot be
\* converted to a Language
AbstainsOrFails(vote) ==
    /\ vote # <<>>
    /\ vote[1] = None
    /\ \/ ~StrTruthy(vote[2])
       \/ LanguageLookup(StrUpper(vote[2])).kind = "KeyError"

\* The run ended with a report in which every segment is "Unknown" at 0.0
CompletedAllUnknown ==
    /\ outcome = "Completed"
    /\ Len(language_spans) = Len(ChunksOfRun)
    /\ \A k \in DOMAIN language_spans :
           language_spans[k].lang = None /\ language_spans[k].conf = 0
    /\ report # NoReport
    /\ report.total = Len(language_spans)
    /\ report.language_counts = <<[tag |-> Unknown, count |-> Len(language_spans)]>>

\* An analysed run in which both classifiers abstained on every segment
\* ends with the all-"Unknown" report
AbstentionRunCompletes ==
    (pc = "done" /\ run_vote = <<None, NoneStr>> /\ ChunksOfRun # <<>>) =>
        CompletedAllUnknown

\* C20: an analysed run on a text with at least one segment, in which every
\* classifier abstains or fails on every segment, ends normally: every
\* segment is "Unknown" with confidence 0.0 and the report is generated,
\* the count of "Unknown" being the number of segments.
C20_AllAbstainStillReports ==
    (pc = "done" /\ AbstainsOrFails(run_vote) /\ ChunksOfRun # <<>>) =>
        CompletedAllUnknown

(***************************************************************************)
(* Further properties of check_rate_limit (SpecRate)                       *)
(***************************************************************************)
\* The timestamps of q that are at most RATE_LIMIT_PERIOD old at time now
NotOld(q, now) ==
    LET Recent(x) == now - x <= RATE_LIMIT_PERIOD
    IN  SelectSeq(q, Recent)

\* The step is a check_rate_limit call that returns False
RejectedCall ==
    /\ Len(calls') = Len(calls) + 1
    /\ ~calls'[Len(calls')].ok

\* The times of the admitted calls, in order
AdmittedTimes ==
    LET Admitted(c) == c.ok
        admitted == SelectSeq(calls, Admitted)
    IN  [k \in DOMAIN admitted |-> admitted[k].t]

\* upload_times holds the times of the admitted calls that are at most
\* RATE_LIMIT_PERIOD older than the last call, and nothing else
WindowIsRecentAdmitted == upload_times = NotOld(AdmittedTimes, clock)

\* C21: a check_rate_limit call that returns False leaves in upload_times
\* exactly the timestamps it held before the call that are not older than
\* RATE_LIMIT_PERIOD, in their order, and no timestamp of its own: the
\* window has not grown.
C21_RejectedCallLeavesNoTimestamp ==
    [][RejectedCall =>
          /\ upload_times' = NotOld(upload_times, clock')
          /\ Len(upload_times') <= Len(upload_times)]_vars

\* Two calls in a row were rejected and the window holds the five admitted
\* timestamps only
C21_Witness ==
    /\ Len(calls) >= 7
    /\ ~calls[Len(calls)].ok
    /\ ~calls[Len(calls) - 1].ok
    /\ Len(upload_times) = RATE_LIMIT
    /\ upload_times = AdmittedTimes

(***************************************************************************)
(* Further properties of the gate of main() (Spec)                         *)
(***************************************************************************)
\* The ways the gate rejects a request that has passed the rate check
LaterRejections ==
    {"InvalidFormat", "OversizeError", "MaliciousContentDetected",
     "CorruptDocument"}

\* C22: upload_times holds timestamps of accepted uploads only: a run that
\* passed the rate check and was then rejected by a later check of the gate
\* has no timestamp in upload_times.  (Runs start at distinct times, and
\* clock is the time at which the current run called check_rate_limit.)
C22_WindowHoldsAcceptedOnly ==
    (pc = "done" /\ outcome \in LaterRejections) =>
        \A i \in DOMAIN upload_times : upload_times[i] # clock

\* C23: the size check rejects a run exactly when uploaded_file.size is more
\* than 10 * 1024 * 1024: a file of exactly that size goes on to the
\* temporary file and the scan, and a larger one ends the run as oversize
\* with no temporary file created and no scan made.
C23_SizeCeilingIsTenMiB ==
    HasRun("size_check") =>
        /\ outcome = "OversizeError" <=> size > 10 * 1024 * 1024
        /\ outcome = "OversizeError" =>
               /\ pc = "done"
               /\ ~tmp_created /\ ~tmp_exists
               /\ ~HasRun("NamedTemporaryFile")
               /\ ~HasRun("scan_pdf_for_malicious_content")
               /\ messages = <<StError(
                      "File is too large. Please upload a file smaller than 10 MB.")>>
        /\ (size <= 10 * 1024 * 1024 /\ pc = "done") => HasRun("NamedTemporaryFile")

\* A file of exactly 10 MiB has had its content scanned
C23_Witness ==
    /\ size = 10 * 1024 * 1024
    /\ HasRun("size_check")
    /\ HasRun("scan_pdf_for_malicious_content")

\* A file of one byte more has been rejected as oversize
OversizeByOneRejected ==
    /\ size = 10 * 1024 * 1024 + 1
    /\ pc = "done"
    /\ outcome = "OversizeError"

(***************************************************************************)
(* Properties of the pages without a gate (SpecUngated)                    *)
(***************************************************************************)
\* C24: when main() of an ungated page has ended, on whatever path, the
\* temporary file it wrote for the upload no longer exists, and no run has
\* left one on disk.
C24_UngatedTempFileReleased ==
    /\ ug_pc = "done" => ~ug_tmp_exists
    /\ ug_leaked = 0

\* Without an exception the file is removed: a run that reaches its last
\* statement leaves no temporary file
UngatedNormalExitReleases ==
    (ug_pc = "done" /\ ug_outcome \in {"NotAnalyzed", "ExtractionEmpty", "Completed"})
        => ~ug_tmp_exists

(***************************************************************************)
(* Properties of detect_language of the labs page (SpecEnsemble)           *)
(***************************************************************************)
\* The four votes as they enter the Counter, in the order of the classifiers
\* fastText, lingua, langid, XLM-RoBERTa
VotesOf(fasttext_raw, lingua_lang, langid_lang, xlmr_lang) ==
    <<SplitLast(fasttext_raw), LinguaStr(lingua_lang), langid_lang, xlmr_lang>>

VoteCount(votes, label) == Cardinality({k \in DOMAIN votes : votes[k] = label})

MaxVoteCount(votes) ==
    CHOOSE c \in 1..Len(votes) :
        /\ \E k \in DOMAIN votes : VoteCount(votes, votes[k]) = c
        /\ \A k \in DOMAIN votes : VoteCount(votes, votes[k]) <= c

\* More than one label has the greatest number of votes
TopTie(votes) ==
    \E i, j \in DOMAIN votes :
        /\ votes[i] # votes[j]
        /\ VoteCount(votes, votes[i]) = MaxVoteCount(votes)
        /\ VoteCount(votes, votes[j]) = MaxVoteCount(votes)

\* The first classifier, in their order, whose vote is the label returned;
\* 0 when no classifier voted for it
WinnerOf(votes, label) ==
    IF \E k \in DOMAIN votes : votes[k] = label
    THEN CHOOSE k \in DOMAIN votes :
             votes[k] = label /\ \A i \in 1..(k - 1) : votes[i] # label
    ELSE 0

CurrentVotes == VotesOf(en_fasttext, en_lingua, en_langid, en_xlmr)

\* When a label has at least two votes, the label returned has the
\* greatest number of votes
EnsembleMajorityWins ==
    (en_pc = "done" /\ MaxVoteCount(CurrentVotes) >= 2) =>
        VoteCount(CurrentVotes, en_result) = MaxVoteCount(CurrentVotes)

\* C25: when a label has at least two votes, the label returned has the
\* greatest number of votes; and when labels are tied at the top, the
\* classifier whose vote is returned is the same whatever languages were
\* voted: it is the one every other tied tuple of votes is decided by.
C25_EnsembleFixedPriority ==
    en_pc = "done" =>
        /\ MaxVoteCount(CurrentVotes) >= 2 =>
               VoteCount(CurrentVotes, en_result) = MaxVoteCount(CurrentVotes)
        /\ TopTie(CurrentVotes) =>
               \A f \in FasttextOutcomes, l \in LabsLinguaOutcomes,
                  i \in LabsCodes, x \in XlmrOutcomes :
                   TopTie(VotesOf(f, l, i, x)) =>
                       WinnerOf(VotesOf(f, l, i, x), labs_detect_language(f, l, i, x))
                           = WinnerOf(CurrentVotes, en_result)

(***************************************************************************)
(* Properties of the dashboard pagination (SpecPages)                      *)
(***************************************************************************)
\* The number of pages 20 records each that pg_total records fill, 1 at least
PagesAtLeastOne ==
    IF (pg_total + 19) \div 20 < 1 THEN 1 ELSE (pg_total + 19) \div 20

\* C26: after any clicks of "Previous" and "Next", for any number of
\* records, the page number lies in 1..max(1, total_pages); "Previous" on
\* page 1 and "Next" on the last page leave it unchanged, and every other
\* click changes it by exactly one.
C26_PageStaysInRange ==
    /\ 1 <= pg_page /\ pg_page <= PagesAtLeastOne
    /\ pg_last.button = "Previous" =>
           pg_page = IF pg_last.before = 1 THEN 1 ELSE pg_last.before - 1
    /\ pg_last.button = "Next" =>
           pg_page = IF pg_last.before = PagesAtLeastOne
                     THEN pg_last.before ELSE pg_last.before + 1

\* With 41 records, "Next" was clicked on page 3 of 3 and the page stayed
C26_Witness ==
    /\ pg_total = 41
    /\ pg_last = [button |-> "Next", before |-> 3]
    /\ pg_page = 3

\* With no records, "Next" was clicked and the page stayed 1
NoRecordsNextStays ==
    /\ pg_total = 0
    /\ pg_last.button = "Next"
    /\ pg_page = 1

====
